---- MODULE Spec2Model ----
(***************************************************************************)
(* Model of the stone-connect client library (stone_connect/client.py,    *)
(* stone_connect/models.py).                                               *)
(*                                                                         *)
(* One StoneConnectHeater object is driven by a sequential caller.  A      *)
(* public coroutine runs from one await of the network to the next: an     *)
(* action that starts a call runs the code up to the first request it      *)
(* sends, and one action per await point receives the reply, runs          *)
(* _request's handling of it and continues to the next request sent or to  *)
(* the end of the call.  The device and the transport are the environment: *)
(* every reply is drawn from Replies(endpoint).                            *)
(*                                                                         *)
(* Values: Optional[T] is None (<<>>) or Some(v) (<<v>>); a JSON object is *)
(* Dict(f) with f a function from the keys present to their values;        *)
(* temperatures are whole degrees.                                          *)
(***************************************************************************)
EXTENDS Integers, Sequences, FiniteSets, TLC

VARIABLES
    scope,           \* caller position: "unconstructed" | "outside" | "inside" (an async-with body)
    sessions,        \* every aiohttp.ClientSession ever made, in creation order
    _session,        \* self._session: None or Some(index into sessions)
    _owned_session,  \* self._owned_session
    pc,              \* "idle", "done" or the await point the running call is suspended at
    method,          \* the public method the caller invoked
    args,            \* its arguments [temperature, mode]
    temperature,     \* local: temperature of the innermost frame
    mode,            \* local: mode of the innermost frame
    client_id,       \* local: client_id of set_temperature_and_mode
    requests,        \* requests sent on the wire during the current call
    response,        \* the reply received last during the current call
    outcome,         \* what the last _request call returned or raised
    result,          \* what the public call returned or raised
    last,            \* name of the last step taken
    previous,        \* what the caller got from the get_status call directly before
    closing          \* the close() or scoped exit suspended in session.close(), or
                     \* what the scoped exit that has just ended gave

vars == <<scope, sessions, _session, _owned_session, pc, method, args, temperature,
          mode, client_id, requests, response, outcome, result, last, previous,
          closing>>

sessionVars == <<sessions, _session, _owned_session>>
callVars == <<pc, method, args, temperature, mode, client_id, requests, response,
              outcome, result>>

-----------------------------------------------------------------------------
(* Bounds of the model *)

\* sessions that may exist in one run (the caller's and those the client makes)
MaxSessions == 2
\* how far outside the accepted range the caller's temperatures reach
MaxDays == 2
MaxSlots == 1
TempMargin == 1

-----------------------------------------------------------------------------
(* Values *)

None == <<>>
Some(v) == <<v>>
Val(o) == o[1]

PyNone == [type |-> "NoneType"]
Dict(f) == [type |-> "dict", items |-> f]
EmptyItems == [k \in {} |-> 0]

\* dict.get(key)
Get(d, k) == IF k \in DOMAIN d.items THEN Some(d.items[k]) ELSE None

Return(v) == [kind |-> "return", value |-> v]
Raise(e) == [kind |-> "raise", exc |-> e]
Pending == [kind |-> "pending"]

\* _validate_temperature's limits
MIN_TEMPERATURE == 0
MAX_TEMPERATURE == 30
\* set_operation_mode's default setpoint when the status has none
DEFAULT_SETPOINT == 20

-----------------------------------------------------------------------------
(* stone_connect/models.py: OperationMode *)

OperationMode == {"ANTIFREEZE", "BOOST", "COMFORT", "ECO", "HIGH", "HOLIDAY",
                  "LOW", "MANUAL", "MEDIUM", "SCHEDULE", "STANDBY"}

\* OperationMode.<member>.value
ModeValue(m) ==
    CASE m = "ANTIFREEZE" -> "ANF"
      [] m = "BOOST" -> "BST"
      [] m = "COMFORT" -> "CMF"
      [] m = "ECO" -> "ECO"
      [] m = "HIGH" -> "HIG"
      [] m = "HOLIDAY" -> "HOL"
      [] m = "LOW" -> "LOW"
      [] m = "MANUAL" -> "MAN"
      [] m = "MEDIUM" -> "MED"
      [] m = "SCHEDULE" -> "SCH"
      [] m = "STANDBY" -> "SBY"

\* mutant of ParseOperationMode: a missing Operative_Mode is taken as MANUAL
ParseOperationMode_missing_is_manual(v) ==
    IF v = None THEN Some("MANUAL")
    ELSE IF \E m \in OperationMode : ModeValue(m) = Val(v)
    THEN Some(CHOOSE m \in OperationMode : ModeValue(m) = Val(v))
    ELSE None

\* OperationMode(value) under "except ValueError: operative_mode = None"
ParseOperationMode(v) ==
    IF v # None /\ \E m \in OperationMode : ModeValue(m) = Val(v)
    THEN Some(CHOOSE m \in OperationMode : ModeValue(m) = Val(v))
    ELSE None

\* models.py UseMode: member names and wire values
UseMode == {"SETPOINT", "POWER"}
UseModeValue(u) ==
    CASE u = "SETPOINT" -> "SET"
      [] u = "POWER" -> "POW"

\* UseMode(value) under "except ValueError: use_mode = None"
ParseUseMode(v) ==
    IF v # None /\ \E u \in UseMode : UseModeValue(u) = Val(v)
    THEN Some(CHOOSE u \in UseMode : UseModeValue(u) = Val(v))
    ELSE None

is_power_mode(m) == m \in {"HIGH", "MEDIUM", "LOW"}
is_preset_mode(m) == m \in {"COMFORT", "ECO", "ANTIFREEZE"}
\* mutant of is_custom_mode: BOOST is not counted as a custom mode
is_custom_mode_manual_only(m) == m \in {"MANUAL"}

is_custom_mode(m) == m \in {"MANUAL", "BOOST"}

\* mutant of get_preset_setpoint: ECO reads the comfort setpoint
get_preset_setpoint_eco_reads_comfort(m, device_info) ==
    IF m = "COMFORT" THEN device_info.comfort_setpoint
    ELSE IF m = "ECO" THEN device_info.comfort_setpoint
    ELSE IF m = "ANTIFREEZE" THEN device_info.antifreeze_setpoint
    ELSE None

get_preset_setpoint(m, device_info) ==
    IF m = "COMFORT" THEN device_info.comfort_setpoint
    ELSE IF m = "ECO" THEN device_info.eco_setpoint
    ELSE IF m = "ANTIFREEZE" THEN device_info.antifreeze_setpoint
    ELSE None

\* The values under Last_Update, Holiday, Holiday_Start and Holiday_End carry their
\* JSON type: an integer, true or false (type "bool"), a string, null (PyNone) or
\* an object (Dict).  An integer n is held as n = days * 86400000 + millis with
\* 0 <= millis < 86400000, so that the timestamps of the device (milliseconds
\* since 1970) and the limits of datetime are within 32-bit integers.
\* Numbers with a fraction and arrays are not among the values.
JsonInteger(days, millis) == [type |-> "int", days |-> days, millis |-> millis]
JsonNumber(n) == JsonInteger(n \div 86400000, n % 86400000)
JsonString(s) == [type |-> "str", text |-> s]

\* A datetime is held as the days since 1970-01-01, the second of the day and the
\* microsecond, in the zone of the process, taken to be UTC.  datetime.min is
\* 0001-01-01 and datetime.max is 9999-12-31 23:59:59.999999; fromtimestamp
\* looks one day back for a repeated hour, so the first day of year 1 is out of
\* range too.
MinDay == -719161
MaxDay == 2932896

\* datetime.fromtimestamp(n / 1000) for the integer n of t: the float n / 1000 is
\* split into whole seconds and a fraction, the fraction is rounded to
\* microseconds, and a year outside 1..9999 raises ValueError
fromtimestamp(t) ==
    LET \* 2^k seconds as <<days, second of the day>>, for the exponents k from
        \* which the float holds the fraction to less than a microsecond
        BinadeStart(k) ==
            CASE k = 33 -> <<99420, 46592>>
              [] k = 34 -> <<198841, 6784>>
              [] k = 35 -> <<397682, 13568>>
              [] k = 36 -> <<795364, 27136>>
              [] k = 37 -> <<1590728, 54272>>
        Before(a, b) == a[1] < b[1] \/ (a[1] = b[1] /\ a[2] < b[2])
        \* |n| as days, second of the day and millisecond
        Magnitude ==
            IF t.days >= 0
            THEN [days |-> t.days, second |-> t.millis \div 1000,
                  milli |-> t.millis % 1000]
            ELSE IF t.millis = 0
            THEN [days |-> -t.days, second |-> 0, milli |-> 0]
            ELSE [days |-> -t.days - 1,
                  second |-> (86400000 - t.millis) \div 1000,
                  milli |-> (86400000 - t.millis) % 1000]
        \* the exponent of the float |n| / 1000 for s whole seconds: 32 stands for
        \* every value below 2^33, where the float is within half a microsecond of
        \* the quotient; from 2^38 seconds on the year is out of range whatever
        \* the fraction is
        FloatExponent(s) ==
            IF Before(s, BinadeStart(33)) THEN 32
            ELSE CHOOSE k \in 33..37 :
                    ~Before(s, BinadeStart(k)) /\ (k = 37 \/ Before(s, BinadeStart(k + 1)))
        \* whole + x / d rounded to the nearest integer, half to even
        RoundHalfEven(whole, x, d) ==
            IF 2 * (x % d) > d \/ (2 * (x % d) = d /\ (whole + x \div d) % 2 = 1)
            THEN whole + x \div d + 1 ELSE whole + x \div d
        \* the fraction of the float in units of 2^-p: milli / 1000 rounded to the
        \* nearest multiple of 2^-p (the whole seconds are such a multiple)
        FloatFraction(milli, p) == RoundHalfEven(0, milli * 2^p, 1000)
        \* round(fraction * 1e6) for the fraction G / D / 64, where
        \* 1e6 = 64 * 15625; the product is exact in a float
        RoundedMicroseconds(G, D) ==
            RoundHalfEven(15625 * (G \div D), 15625 * (G % D), D)
        \* the microseconds of the fraction of the float with exponent k
        Microseconds(milli, k) ==
            IF k = 32 THEN milli * 1000
            ELSE RoundedMicroseconds(FloatFraction(milli, 52 - k), 2^(46 - k))
        \* a full million microseconds is carried into the seconds, a full day of
        \* seconds into the days
        Carried(days, second, us) ==
            [days |-> days + (second + us \div 1000000) \div 86400,
             second |-> (second + us \div 1000000) % 86400,
             microsecond |-> us % 1000000]
        \* modf(|n| / 1000) and the microseconds of its fraction
        FloatSeconds(a) ==
            Carried(a.days, a.second,
                    Microseconds(a.milli, FloatExponent(<<a.days, a.second>>)))
        \* below zero the microseconds are counted from the second below
        Signed(m) ==
            IF t.days >= 0 THEN m
            ELSE IF m.second = 0 /\ m.microsecond = 0
            THEN [days |-> -m.days, second |-> 0, microsecond |-> 0]
            ELSE [days |-> -m.days - 1,
                  second |-> 86400 - m.second - (IF m.microsecond > 0 THEN 1 ELSE 0),
                  microsecond |-> (1000000 - m.microsecond) % 1000000]
        InRange(dt) ==
            IF dt.days < MinDay \/ dt.days > MaxDay THEN Raise([type |-> "ValueError"])
            ELSE Return(dt)
    IN InRange(Signed(FloatSeconds(Magnitude)))

\* the Optional of what a call returned
ReturnedOptional(call) ==
    IF call.kind = "raise" THEN call ELSE Return(Some(call.value))

\* parse_timestamp: None for None, a datetime for milliseconds since the epoch
\* (a bool counts as the integer 1 or 0); "timestamp / 1000" raises TypeError for a
\* string or an object, fromtimestamp raises ValueError for a number out of range
parse_timestamp(timestamp) ==
    LET IntOf(v) == IF v.type = "bool" THEN JsonNumber(IF v.value THEN 1 ELSE 0) ELSE v
    IN IF timestamp = None \/ Val(timestamp).type = "NoneType" THEN Return(None)
       ELSE CASE Val(timestamp).type \in {"str", "dict"} -> Raise([type |-> "TypeError"])
              [] Val(timestamp).type \in {"int", "bool"} ->
                    ReturnedOptional(fromtimestamp(IntOf(Val(timestamp))))

\* HolidaySettings.from_dict: data.get raises AttributeError when data is no dict;
\* the arguments of cls(...) are evaluated in order, so parse_timestamp raises for
\* Holiday_Start first and then for Holiday_End
HolidaySettingsFromDict(data) ==
    LET HolidaySettings(holiday_start, holiday_end, operative_mode) ==
            IF holiday_start.kind = "raise" THEN holiday_start
            ELSE IF holiday_end.kind = "raise" THEN holiday_end
            ELSE Return([holiday_start |-> holiday_start.value,
                         holiday_end |-> holiday_end.value,
                         operative_mode |-> operative_mode])
    IN IF data.type # "dict" THEN Raise([type |-> "AttributeError"])
       ELSE HolidaySettings(parse_timestamp(Get(data, "Holiday_Start")),
                            parse_timestamp(Get(data, "Holiday_End")),
                            Get(data, "Operative_Mode"))

\* Info.from_dict (the fields the client reads, Holiday and Last_Update): the
\* holiday settings are built before cls(...) parses the timestamp
InfoFromDict(data) ==
    LET \* the truth value of holiday_data in "... if holiday_data else None"
        HolidayGiven(holiday_data) ==
            /\ holiday_data # None
            /\ CASE Val(holiday_data).type = "NoneType" -> FALSE
                 [] Val(holiday_data).type = "int" ->
                        Val(holiday_data).days # 0 \/ Val(holiday_data).millis # 0
                 [] Val(holiday_data).type = "bool" -> Val(holiday_data).value
                 [] Val(holiday_data).type = "str" -> Val(holiday_data).text # ""
                 [] Val(holiday_data).type = "dict" -> DOMAIN Val(holiday_data).items # {}
        \* "HolidaySettings.from_dict(holiday_data) if holiday_data else None"
        HolidayOf(holiday_data) ==
            IF HolidayGiven(holiday_data)
            THEN ReturnedOptional(HolidaySettingsFromDict(Val(holiday_data)))
            ELSE Return(None)
        Info(holiday, last_update) ==
            IF holiday.kind = "raise" THEN holiday
            ELSE IF last_update.kind = "raise" THEN last_update
            ELSE Return(
                [client_id |-> Get(data, "Client_ID"),
                 operative_mode |-> ParseOperationMode(Get(data, "Operative_Mode")),
                 set_point |-> Get(data, "Set_Point"),
                 use_mode |-> ParseUseMode(Get(data, "Use_Mode")),
                 comfort_setpoint |-> Get(data, "Comfort_Setpoint"),
                 eco_setpoint |-> Get(data, "Eco_Setpoint"),
                 antifreeze_setpoint |-> Get(data, "Antifreeze_Setpoint"),
                 load_size_watt |-> Get(data, "Load_Size_Watt"),
                 holiday |-> holiday.value,
                 last_update |-> last_update.value])
    IN Info(HolidayOf(Get(data, "Holiday")), parse_timestamp(Get(data, "Last_Update")))

\* Status.from_dict (the fields the client reads and Last_Update)
StatusFromDict(data) ==
    LET Status(last_update) ==
            IF last_update.kind = "raise" THEN last_update
            ELSE Return(
                [client_id |-> Get(data, "Client_ID"),
                 set_point |-> Get(data, "Set_Point"),
                 operative_mode |-> ParseOperationMode(Get(data, "Operative_Mode")),
                 power_consumption_watt |-> Get(data, "Power_Consumption_Watt"),
                 daily_energy |-> Get(data, "Daily_Energy"),
                 error_code |-> Get(data, "Error_Code"),
                 lock_status |-> Get(data, "Lock_Status"),
                 rssi |-> Get(data, "RSSI"),
                 last_update |-> last_update.value])
    IN Status(parse_timestamp(Get(data, "Last_Update")))

\* ScheduleSlot.to_dict and ScheduleSlot.from_dict
SlotToDict(slot) ==
    Dict([k \in {"hour", "minute", "set_point"} |->
             CASE k = "hour" -> slot.hour
               [] k = "minute" -> slot.minute
               [] k = "set_point" -> slot.set_point])

\* a list comprehension over calls: the first call that raises ends it
Comprehension(calls) ==
    IF \E i \in DOMAIN calls : calls[i].kind = "raise"
    THEN calls[CHOOSE i \in DOMAIN calls :
                  /\ calls[i].kind = "raise"
                  /\ \A j \in 1..(i - 1) : calls[j].kind = "return"]
    ELSE Return([i \in DOMAIN calls |-> calls[i].value])

\* ScheduleSlot.from_dict: the keys are read in the order hour, minute, set_point,
\* and data[key] raises KeyError(key) for a dict without the key
\* (data[key] raises TypeError when data is a string, a number, a bool or None)
SlotFromDict(data) ==
    IF data.type # "dict" THEN Raise([type |-> "TypeError"])
    ELSE IF "hour" \notin DOMAIN data.items THEN Raise([type |-> "KeyError", key |-> "hour"])
    ELSE IF "minute" \notin DOMAIN data.items
    THEN Raise([type |-> "KeyError", key |-> "minute"])
    ELSE IF "set_point" \notin DOMAIN data.items
    THEN Raise([type |-> "KeyError", key |-> "set_point"])
    ELSE Return([hour |-> data.items["hour"],
                 minute |-> data.items["minute"],
                 set_point |-> data.items["set_point"]])

\* ScheduleDay.to_dict and ScheduleDay.from_dict
DayToDict(day) ==
    Dict([k \in {"week_day", "schedule_slots"} |->
             IF k = "week_day" THEN day.week_day
             ELSE [i \in DOMAIN day.schedule_slots |-> SlotToDict(day.schedule_slots[i])]])

\* ScheduleDay.from_dict: data["week_day"] is read before the slots of
\* data.get("schedule_slots", []), a list, are built
DayFromDict(data) ==
    LET ScheduleDay(week_day, schedule_slots) ==
            IF schedule_slots.kind = "raise" THEN schedule_slots
            ELSE Return([week_day |-> week_day, schedule_slots |-> schedule_slots.value])
        SlotsOf(slots) == Comprehension([i \in DOMAIN slots |-> SlotFromDict(slots[i])])
    IN IF data.type # "dict" THEN Raise([type |-> "TypeError"])
       ELSE IF "week_day" \notin DOMAIN data.items
       THEN Raise([type |-> "KeyError", key |-> "week_day"])
       ELSE ScheduleDay(data.items["week_day"],
                        SlotsOf(IF "schedule_slots" \in DOMAIN data.items
                                THEN data.items["schedule_slots"] ELSE <<>>))

\* Python's truth value of an Optional list
ListTruthy(l) == l # None /\ Val(l) # <<>>

\* mutant of ScheduleToDict: the order of the days is reversed
ScheduleToDictReversed(schedule) ==
    LET days == Val(schedule.weekly_schedule) IN
    Dict(IF ListTruthy(schedule.weekly_schedule)
         THEN [k \in {"Client_ID", "Weekly_Schedule"} |->
                  IF k = "Client_ID" THEN schedule.client_id
                  ELSE [i \in DOMAIN days |-> DayToDict(days[Len(days) + 1 - i])]]
         ELSE [k \in {"Client_ID"} |-> schedule.client_id])

\* Schedule.to_dict; the value under Client_ID is the Optional itself (null or a string)
ScheduleToDict(schedule) ==
    LET days == Val(schedule.weekly_schedule) IN
    Dict(IF ListTruthy(schedule.weekly_schedule)
         THEN [k \in {"Client_ID", "Weekly_Schedule"} |->
                  IF k = "Client_ID" THEN schedule.client_id
                  ELSE [i \in DOMAIN days |-> DayToDict(days[i])]]
         ELSE [k \in {"Client_ID"} |-> schedule.client_id])

\* Schedule.from_dict: the days of data["Weekly_Schedule"], a list, are built
\* first; Last_Update is parsed when cls(...) is called
ScheduleFromDict(data) ==
    LET WeeklySchedule ==
            IF "Weekly_Schedule" \in DOMAIN data.items
            THEN Comprehension([i \in DOMAIN data.items["Weekly_Schedule"] |->
                                   DayFromDict(data.items["Weekly_Schedule"][i])])
            ELSE Return(<<>>)
        Schedule(weekly_schedule, last_update) ==
            IF weekly_schedule.kind = "raise" THEN weekly_schedule
            ELSE IF last_update.kind = "raise" THEN last_update
            ELSE Return(
                [client_id |-> IF "Client_ID" \in DOMAIN data.items
                               THEN data.items["Client_ID"] ELSE None,
                 weekly_schedule |-> IF "Weekly_Schedule" \in DOMAIN data.items
                                     THEN Some(weekly_schedule.value) ELSE None,
                 last_update |-> last_update.value])
    IN Schedule(WeeklySchedule, parse_timestamp(Get(data, "Last_Update")))

-----------------------------------------------------------------------------
(* stone_connect/exceptions.py and the exceptions of aiohttp / asyncio *)

StoneConnectErrors == {"StoneConnectConnectionError", "StoneConnectAuthenticationError",
                       "StoneConnectAPIError", "StoneConnectValidationError"}

ValidationError(msg) == [type |-> "StoneConnectValidationError", msg |-> msg]

\* What the transport raises for each kind of failure.  ClientTimeout(total=...)
\* expiring raises asyncio.TimeoutError, which is not an aiohttp.ClientError.
TransportFailures == {"DNS", "TCP", "TLS", "timeout"}
TransportException(failure) ==
    CASE failure = "DNS" -> "ClientConnectorError"
      [] failure = "TCP" -> "ClientOSError"
      [] failure = "TLS" -> "ClientConnectorSSLError"
      [] failure = "timeout" -> "TimeoutError"

\* isinstance(e, aiohttp.ClientError)
IsClientError(cls) ==
    cls \in {"ClientConnectorError", "ClientOSError", "ClientConnectorSSLError",
             "ClientResponseError", "ContentTypeError"}

-----------------------------------------------------------------------------
(* The device and the transport: the replies a request can get *)

\* {key: value} for the fields of rec that are present
MakeDict(rec) ==
    Dict([k \in {f \in DOMAIN rec : rec[f] # None} |-> Val(rec[k])])

\* the values a response carries under Last_Update: a number of milliseconds (one
\* early, one from 2^33 seconds on, where the float loses microseconds, one in the
\* year 10000), true, or a date as text
TimestampValues ==
    {JsonNumber(1500), JsonInteger(99420, 46592001), JsonInteger(MaxDay + 1, 0),
     [type |-> "bool", value |-> TRUE], JsonString("2024-01-01")}

\* the values a response carries under Holiday: the settings as an object, with a
\* well-formed or a malformed start, or, malformed, a text
HolidayValues ==
    { Dict([k \in {"Holiday_Start", "Operative_Mode"} |->
               IF k = "Holiday_Start" THEN start ELSE "ANF"]) : start \in TimestampValues }
    \cup {JsonString("none")}

InfoPayloads ==
    { MakeDict(r) : r \in [Client_ID : {None, Some("c1")},
                           Comfort_Setpoint : {None, Some(19), Some(MAX_TEMPERATURE + TempMargin)},
                           Eco_Setpoint : {None, Some(15)},
                           Antifreeze_Setpoint : {None, Some(7)}] }
    \cup { MakeDict(r) : r \in [Client_ID : {Some("c1")},
                                Set_Point : {None, Some(22)},
                                Load_Size_Watt : {None, Some(0), Some(1500)}] }
    \cup { MakeDict([Client_ID |-> Some("c1"), Comfort_Setpoint |-> Some(19),
                     Last_Update |-> Some(t)]) : t \in TimestampValues }
    \cup { MakeDict([Client_ID |-> Some("c1"), Comfort_Setpoint |-> Some(19),
                     Holiday |-> Some(h)]) : h \in HolidayValues }

\* a status response that reports the measurements too
StatusWithMeasurements ==
    MakeDict([Set_Point |-> Some(21), Operative_Mode |-> Some("CMF"),
              Power_Consumption_Watt |-> Some(1200), Daily_Energy |-> Some(3400),
              Error_Code |-> Some(0), Lock_Status |-> Some(FALSE), RSSI |-> Some(-60)])

StatusPayloads ==
    { MakeDict(r) : r \in [Set_Point : {None, Some(MIN_TEMPERATURE - TempMargin), Some(0),
                                        Some(21), Some(MAX_TEMPERATURE + TempMargin)},
                           Operative_Mode : {None, Some("UNKNOWN_MODE")}
                                            \cup {Some(ModeValue(m)) : m \in OperationMode}] }
    \cup {StatusWithMeasurements}
    \cup { MakeDict([Set_Point |-> Some(21), Operative_Mode |-> Some("MAN"),
                     Last_Update |-> Some(t)]) : t \in TimestampValues }

\* GET Schedule responses: with or without Client_ID, with or without a weekly
\* schedule of one day with one slot, with a Last_Update, with a day that lacks a
\* key (a day without week_day, a day with a slot that has only its hour); as in
\* Schedule.to_dict the value under Client_ID is an Optional
SchedulePayloads ==
    LET MalformedDays ==
            { Dict(EmptyItems),
              Dict([d \in {"week_day", "schedule_slots"} |->
                       IF d = "week_day" THEN 0 ELSE <<Dict([j \in {"hour"} |-> 6])>>]) }
    IN
    { Dict([k \in keys |->
               IF k = "Client_ID" THEN Some("c1")
               ELSE <<Dict([d \in {"week_day", "schedule_slots"} |->
                              IF d = "week_day" THEN 0
                              ELSE <<Dict([j \in {"hour", "minute", "set_point"} |->
                                              CASE j = "hour" -> 6
                                                [] j = "minute" -> 30
                                                [] j = "set_point" -> 21])>>])>>]) :
        keys \in SUBSET {"Client_ID", "Weekly_Schedule"} }
    \cup { MakeDict([Last_Update |-> Some(t)]) : t \in TimestampValues }
    \cup { Dict([k \in {"Last_Update", "Weekly_Schedule"} |->
                   IF k = "Last_Update" THEN t ELSE <<day>>]) :
             t \in {JsonNumber(1500), JsonString("2024-01-01")}, day \in MalformedDays }

AckPayloads == { Dict([k \in {"Result"} |-> "OK"]) }

Payloads(endpoint) ==
    CASE endpoint = "info" -> InfoPayloads
      [] endpoint = "status" -> StatusPayloads
      [] endpoint = "Schedule" -> SchedulePayloads
      [] OTHER -> AckPayloads

\* What response.json() does with an empty body differs between aiohttp releases:
\* it returns None, or lets json.loads raise JSONDecodeError.
JsonOfEmptyBody == {"None", "JSONDecodeError"}

Bodies(endpoint) ==
    {[kind |-> "json", value |-> v] : v \in Payloads(endpoint)}
    \cup {[kind |-> "text", text |-> "OK"]}
    \cup {[kind |-> "empty", json |-> j] : j \in JsonOfEmptyBody}

ErrorBodies == {[kind |-> "text", text |-> "denied"], [kind |-> "empty", json |-> "None"]}

Replies(endpoint) ==
    {[kind |-> "transport", failure |-> f] : f \in TransportFailures}
    \cup {[kind |-> "http", status |-> s, content_type_ok |-> FALSE, body |-> b] :
            s \in {401, 404, 500}, b \in ErrorBodies}
    \cup {[kind |-> "http", status |-> 200, content_type_ok |-> c, body |-> b] :
            c \in BOOLEAN, b \in Bodies(endpoint)}

NoResponse == [kind |-> "none"]

-----------------------------------------------------------------------------
(* StoneConnectHeater._request *)

\* await response.text()
ResponseText(reply) ==
    CASE reply.body.kind = "empty" -> ""
      [] reply.body.kind = "text" -> reply.body.text
      [] reply.body.kind = "json" -> "<json>"

\* response.ok
ResponseOk(reply) == reply.status < 400

\* session.request(**kwargs) on a session made with the given raise_for_status:
\* raises the transport's exception, or ClientResponseError for a status >= 400
\* when raise_for_status is set, else yields the response
SessionRequest(raise_for_status, reply) ==
    IF reply.kind = "transport"
    THEN Raise([type |-> TransportException(reply.failure)])
    ELSE IF raise_for_status /\ reply.status >= 400
    THEN Raise([type |-> "ClientResponseError", status |-> reply.status])
    ELSE Return(reply)

\* response.json(content_type="text/json")
ResponseJson(reply) ==
    IF ~reply.content_type_ok THEN Raise([type |-> "ContentTypeError"])
    ELSE CASE reply.body.kind = "json" -> Return(reply.body.value)
           [] reply.body.kind = "text" -> Raise([type |-> "JSONDecodeError"])
           [] reply.body.kind = "empty" ->
                IF reply.body.json = "None" THEN Return(PyNone)
                ELSE Raise([type |-> "JSONDecodeError"])

\* the status dispatch of _request (client.py 138-145): an exception or "ok"
StatusCheck(endpoint, reply) ==
    IF reply.status = 401
    THEN Raise([type |-> "StoneConnectAuthenticationError", msg |-> "Authentication failed"])
    ELSE IF reply.status = 404
    THEN Raise([type |-> "StoneConnectAPIError", msg |-> "Endpoint not found",
                endpoint |-> endpoint])
    ELSE IF ~ResponseOk(reply)
    THEN Raise([type |-> "StoneConnectAPIError", msg |-> "API request failed",
                status |-> reply.status, text |-> ResponseText(reply)])
    ELSE Return("ok")

\* the inner try of _request (client.py 148-152)
ParseBody(reply) ==
    LET j == ResponseJson(reply) IN
    IF j.kind = "raise" /\ j.exc.type = "JSONDecodeError"
    THEN Return(IF ResponseText(reply) # ""
                THEN Dict([k \in {"response"} |-> ResponseText(reply)])
                ELSE Dict(EmptyItems))
    ELSE j

\* the body of the outer try of _request (client.py 129-152)
RequestTry(raise_for_status, endpoint, reply) ==
    LET r == SessionRequest(raise_for_status, reply) IN
    IF r.kind = "raise" THEN r
    ELSE LET c == StatusCheck(endpoint, reply) IN
         IF c.kind = "raise" THEN c ELSE ParseBody(reply)

\* except aiohttp.ClientError as e: raise StoneConnectConnectionError (client.py 154-155)
ExceptClientError(r) ==
    IF r.kind = "raise" /\ IsClientError(r.exc.type)
    THEN Raise([type |-> "StoneConnectConnectionError", msg |-> "Connection failed",
                cause |-> r.exc.type])
    ELSE r

_request(raise_for_status, endpoint, reply) ==
    ExceptClientError(RequestTry(raise_for_status, endpoint, reply))

-----------------------------------------------------------------------------
(* Session life cycle: __init__, _ensure_session, close, __aenter__, __aexit__ *)

\* a session the caller made with aiohttp.ClientSession(): raise_for_status is off
CallerSession(closed) ==
    [creator |-> "caller", closed |-> closed, raise_for_status |-> FALSE,
     closed_by |-> IF closed THEN "caller" ELSE "nobody",
     closes |-> IF closed THEN 1 ELSE 0,
     closed_in |-> IF closed THEN "caller" ELSE "nothing"]

\* aiohttp.ClientSession(raise_for_status=True, ...) of _ensure_session
NewClientSession ==
    [creator |-> "client", closed |-> FALSE, raise_for_status |-> TRUE,
     closed_by |-> "nobody", closes |-> 0, closed_in |-> "nothing"]

\* mutant of OwnedSession: every session counts as the client's own
OwnedSessionAlways(session) == TRUE

\* self._owned_session = session is None
OwnedSession(session) == session = None

\* mutant of SessionUnusable: only an absent session is replaced
SessionUnusableOnlyAbsent == _session = None

\* the condition of _ensure_session: self._session is None or self._session.closed
SessionUnusable == _session = None \/ sessions[Val(_session)].closed

_ensure_session ==
    /\ IF SessionUnusable
       THEN /\ Len(sessions) < MaxSessions
            /\ sessions' = Append(sessions, NewClientSession)
            /\ _session' = Some(Len(sessions) + 1)
       ELSE UNCHANGED <<sessions, _session>>
    /\ UNCHANGED _owned_session

\* the condition of close()
CloseCondition == _owned_session /\ _session # None /\ ~sessions[Val(_session)].closed

\* mutant of close: the session is closed whenever the client holds one of its
\* own, and the reference to it is kept
close_keeping_reference(step) ==
    /\ IF _owned_session /\ _session # None
       THEN /\ sessions' = [sessions EXCEPT ![Val(_session)].closed = TRUE,
                                            ![Val(_session)].closed_by = "client",
                                            ![Val(_session)].closes = @ + 1,
                                            ![Val(_session)].closed_in = step]
            /\ UNCHANGED _session
       ELSE UNCHANGED <<sessions, _session>>
    /\ UNCHANGED _owned_session

\* "await self._session.close()" up to the point where aiohttp suspends or returns:
\* the session is closed; it counts the times its close() was awaited and keeps the
\* step of the caller that closed it
SessionClose(step) ==
    sessions' = [sessions EXCEPT ![Val(_session)].closed = TRUE,
                                 ![Val(_session)].closed_by = "client",
                                 ![Val(_session)].closes = @ + 1,
                                 ![Val(_session)].closed_in = step]

\* close(), awaited in the given step of the caller, when session.close() returns
\* without suspending
close(step) ==
    /\ IF CloseCondition
       THEN /\ SessionClose(step)
            /\ _session' = None
       ELSE UNCHANGED <<sessions, _session>>
    /\ UNCHANGED _owned_session

\* no close() is suspended and no scoped exit has just ended
NotClosing == [at |-> "none"]

\* a close() or a scoped exit is suspended in "await self._session.close()"
Closing == closing.at \in {"close", "__aexit__"}

\* what a step of a call leaves of closing: a suspended close() stays suspended
StillClosing == IF Closing THEN closing ELSE NotClosing

\* close() up to "await self._session.close()" when aiohttp suspends there: the
\* session is closed and the client still holds it
close_suspends(step) ==
    /\ CloseCondition
    /\ SessionClose(step)
    /\ UNCHANGED <<_session, _owned_session>>

\* close() resumed after "await self._session.close()": self._session = None,
\* whatever self._session is by now
close_resumes ==
    /\ _session' = None
    /\ UNCHANGED <<sessions, _owned_session>>

\* the calls another task of the caller makes while close() is suspended
CallsOfOtherTasks == {"get_info", "get_status"}

-----------------------------------------------------------------------------
(* The running call *)

NoArgs == [temperature |-> None, mode |-> None]

\* the caller's directly preceding call was not a get_status that returned
NoPrevious == [kind |-> "none"]

\* what the caller keeps of the call that ended: the setpoint of the Status a
\* get_status call returned
Kept ==
    IF method = "get_status" /\ result.kind = "return"
    THEN [kind |-> "status", set_point |-> result.value.set_point]
    ELSE NoPrevious
Locals(t, m, cid) == [temperature |-> t, mode |-> m, client_id |-> cid]
CurrentLocals == Locals(temperature, mode, client_id)

Idle == pc = "idle"

ResetCall ==
    /\ pc' = "idle"
    /\ method' = "none"
    /\ args' = NoArgs
    /\ temperature' = None
    /\ mode' = None
    /\ client_id' = None
    /\ requests' = <<>>
    /\ response' = NoResponse
    /\ outcome' = Pending
    /\ result' = Pending

\* the public call ends, returning or raising res
Finish(res, L, log) ==
    /\ pc' = "done"
    /\ result' = res
    /\ temperature' = L.temperature
    /\ mode' = L.mode
    /\ client_id' = L.client_id
    /\ requests' = log
    /\ UNCHANGED sessionVars

\* the call reaches "await self._request(http, endpoint, data)": _ensure_session
\* runs, the request goes out on the session and the coroutine suspends at label
Await(label, http, endpoint, data, L, log) ==
    /\ _ensure_session
    /\ requests' = Append(log, [method |-> http, endpoint |-> endpoint, data |-> data,
                                session |-> Val(_session')])
    /\ pc' = label
    /\ result' = Pending
    /\ temperature' = L.temperature
    /\ mode' = L.mode
    /\ client_id' = L.client_id

InFlight == requests[Len(requests)]

\* _request resumes with the reply to the request in flight
Receive(reply) ==
    _request(sessions[InFlight.session].raise_for_status, InFlight.endpoint, reply)

-----------------------------------------------------------------------------
(* Accessors and helpers of StoneConnectHeater *)

\* the static classification helpers of the client (client.py 440-457)
_is_power_mode(m) == \E i \in 1..3 : <<"HIGH", "MEDIUM", "LOW">>[i] = m

\* mutant of _is_preset_mode: ANTIFREEZE is missing from the list
_is_preset_mode_without_antifreeze(m) == \E i \in 1..2 : <<"COMFORT", "ECO">>[i] = m

_is_preset_mode(m) == \E i \in 1..3 : <<"COMFORT", "ECO", "ANTIFREEZE">>[i] = m

_is_custom_temperature_mode(m) == \E i \in 1..2 : <<"MANUAL", "BOOST">>[i] = m

\* mutant of _get_preset_setpoint: ANTIFREEZE reads the eco setpoint
_get_preset_setpoint_antifreeze_reads_eco(m, device_info) ==
    IF m = "COMFORT" THEN device_info.comfort_setpoint
    ELSE IF m = "ECO" THEN device_info.eco_setpoint
    ELSE IF m = "ANTIFREEZE" THEN device_info.eco_setpoint
    ELSE None

\* StoneConnectHeater._get_preset_setpoint (client.py 459-470)
_get_preset_setpoint(m, device_info) ==
    IF m = "COMFORT" THEN device_info.comfort_setpoint
    ELSE IF m = "ECO" THEN device_info.eco_setpoint
    ELSE IF m = "ANTIFREEZE" THEN device_info.antifreeze_setpoint
    ELSE None

\* mutant of _validate_temperature: the lower limit is not checked
_validate_temperature_no_minimum(t) ==
    IF t > MAX_TEMPERATURE THEN Raise(ValidationError("above maximum limit"))
    ELSE Return(PyNone)

\* mutant of _validate_temperature: the upper limit itself is rejected
_validate_temperature_exclusive_maximum(t) ==
    IF t < MIN_TEMPERATURE THEN Raise(ValidationError("below minimum limit"))
    ELSE IF t >= MAX_TEMPERATURE THEN Raise(ValidationError("above maximum limit"))
    ELSE Return(PyNone)

_validate_temperature(t) ==
    IF t < MIN_TEMPERATURE THEN Raise(ValidationError("below minimum limit"))
    ELSE IF t > MAX_TEMPERATURE THEN Raise(ValidationError("above maximum limit"))
    ELSE Return(PyNone)

\* mutant of get_info: a failed request is logged and an empty Info returned
get_info_swallowing_errors(o) ==
    IF o.kind = "raise" THEN InfoFromDict(Dict(EmptyItems))
    ELSE IF o.value.type = "NoneType" THEN Raise([type |-> "AttributeError"])
    ELSE InfoFromDict(o.value)

\* get_info after its _request: Info.from_dict(data), any exception re-raised as it is
get_info(o) ==
    IF o.kind = "raise" THEN o
    ELSE IF o.value.type = "NoneType" THEN Raise([type |-> "AttributeError"])
    ELSE InfoFromDict(o.value)

\* mutant of get_status: the Status of the preceding call is served from a cache
get_status_cached(o) ==
    IF o.kind = "raise" THEN o
    ELSE IF o.value.type = "NoneType" THEN Raise([type |-> "AttributeError"])
    ELSE IF previous.kind = "status" /\ StatusFromDict(o.value).kind = "return"
    THEN Return([StatusFromDict(o.value).value EXCEPT !.set_point = previous.set_point])
    ELSE StatusFromDict(o.value)

\* get_status after its _request
get_status(o) ==
    IF o.kind = "raise" THEN o
    ELSE IF o.value.type = "NoneType" THEN Raise([type |-> "AttributeError"])
    ELSE StatusFromDict(o.value)

\* get_schedule after its _request: "Weekly_Schedule" in None raises TypeError
get_schedule(o) ==
    IF o.kind = "raise" THEN o
    ELSE IF o.value.type = "NoneType" THEN Raise([type |-> "TypeError"])
    ELSE ScheduleFromDict(o.value)

\* mutant of is_online: the failure of get_status is not caught
is_online_without_except(status) ==
    IF status.kind = "raise" THEN status ELSE Return(TRUE)

\* is_online after "await self.get_status()": except Exception: return False
is_online(status) ==
    IF status.kind = "raise" THEN Return(FALSE) ELSE Return(TRUE)

\* has_power_measurement_support after "info = await self.get_info()":
\* info.load_size_watt != 0, and in Python None != 0 is True
has_power_measurement_support(info) ==
    IF info.kind = "raise" THEN info
    ELSE Return(info.value.load_size_watt # Some(0))

\* get_current_temperature after "info = await self.get_info()"
get_current_temperature(info) ==
    IF info.kind = "raise" THEN info ELSE Return(info.value.set_point)

\* get_target_temperature after "status = await self.get_status()"
get_target_temperature(status) ==
    IF status.kind = "raise" THEN status ELSE Return(status.value.set_point)

\* mutant of is_heating: a status without a mode counts as not heating
is_heating_two_valued(status) ==
    IF status.kind = "raise" THEN status
    ELSE IF status.value.operative_mode = None THEN Return(Some(FALSE))
    ELSE Return(Some(Val(status.value.operative_mode) # "STANDBY"))

\* is_heating after "status = await self.get_status()" (client.py 391-393)
is_heating(status) ==
    IF status.kind = "raise" THEN status
    ELSE IF status.value.operative_mode = None THEN Return(None)
    ELSE Return(Some(Val(status.value.operative_mode) # "STANDBY"))

get_signal_strength(status) ==
    IF status.kind = "raise" THEN status ELSE Return(status.value.rssi)

is_locked(status) ==
    IF status.kind = "raise" THEN status ELSE Return(status.value.lock_status)

get_error_code(status) ==
    IF status.kind = "raise" THEN status ELSE Return(status.value.error_code)

get_daily_energy(status) ==
    IF status.kind = "raise" THEN status ELSE Return(status.value.daily_energy)

get_power_consumption(status) ==
    IF status.kind = "raise" THEN status ELSE Return(status.value.power_consumption_watt)

\* Python's "x or default" on an Optional number
PyOr(x, default) == IF x = None \/ Val(x) = 0 THEN default ELSE Val(x)

\* mutant of BodySetPoint: the temperature is sent for a power mode too
BodySetPointAlwaysTemperature(t, m) == t

\* the Set_Point set_temperature_and_mode puts in the body (client.py 228-233)
BodySetPoint(t, m) == IF ~is_power_mode(m) THEN t ELSE 0

\* the request body of set_temperature_and_mode (client.py 222-233)
SetpointBody(cid, t, m) ==
    [Client_ID |-> cid, Operative_Mode |-> ModeValue(m), Set_Point |-> BodySetPoint(t, m)]

\* mutant of ValidatesTemperature: only MANUAL and BOOST setpoints are validated
ValidatesTemperatureOfCustomModes(m) == is_custom_mode(m)

\* whether set_temperature_and_mode validates the temperature (client.py 214)
ValidatesTemperature(m) == ~is_power_mode(m)

\* mutant of set_temperature_and_mode: the PUT goes out without reading the Info
set_temperature_and_mode_without_info(t, m, log) ==
    Await("set_temperature_and_mode.put", "PUT", "setpoint", Some(SetpointBody(None, t, m)),
          Locals(Some(t), Some(m), None), log)

\* set_temperature_and_mode up to its first await (client.py 212-218)
set_temperature_and_mode(t, m, log) ==
    IF ValidatesTemperature(m) /\ _validate_temperature(t).kind = "raise"
    THEN Finish(_validate_temperature(t), Locals(Some(t), Some(m), None), log)
    ELSE Await("set_temperature_and_mode.get_info", "GET", "info", None,
               Locals(Some(t), Some(m), None), log)

\* the mode check of set_temperature (client.py 272-284): the error raised, or ok
CustomModeCheck(m) ==
    IF ~is_custom_mode(m)
    THEN IF is_power_mode(m)
         THEN Raise(ValidationError("Power mode: use set_operation_mode()"))
         ELSE IF is_preset_mode(m)
         THEN Raise(ValidationError("Preset mode: use set_operation_mode()"))
         ELSE Raise(ValidationError("Mode doesn't support custom temperature setpoints"))
    ELSE Return(PyNone)

\* set_temperature from its mode check on (client.py 271-286)
set_temperature_checked(t, m, log) ==
    IF CustomModeCheck(m).kind = "raise"
    THEN Finish(CustomModeCheck(m), Locals(Some(t), Some(m), None), log)
    ELSE set_temperature_and_mode(t, m, log)

\* set_temperature up to its first await (client.py 264-286)
set_temperature(t, m, log) ==
    IF _validate_temperature(t).kind = "raise"
    THEN Finish(_validate_temperature(t), Locals(Some(t), m, None), log)
    ELSE IF m = None
    THEN Await("set_temperature.get_status", "GET", "status", None,
               Locals(Some(t), m, None), log)
    ELSE set_temperature_checked(t, Val(m), log)

\* set_operation_mode up to its first await (client.py 304)
set_operation_mode(m, log) ==
    Await("set_operation_mode.get_info", "GET", "info", None, Locals(None, Some(m), None), log)

\* mutant of set_power_mode: the level is not checked
set_power_mode_unchecked(power_level, log) == set_operation_mode(power_level, log)

\* set_power_mode (client.py 367-371)
set_power_mode(power_level, log) ==
    IF ~is_power_mode(power_level)
    THEN Finish(Raise(ValidationError("not a valid power mode")),
                Locals(None, Some(power_level), None), log)
    ELSE set_operation_mode(power_level, log)

-----------------------------------------------------------------------------
(* Initial states: the object after __init__(host, session=...) *)

\* temperatures the caller passes
Temperatures ==
    {MIN_TEMPERATURE - TempMargin, MIN_TEMPERATURE, 22, MAX_TEMPERATURE,
     MAX_TEMPERATURE + TempMargin}

\* the session argument of __init__: None, or a session of the caller's
SessionArguments ==
    {None} \cup {Some(CallerSession(c)) : c \in BOOLEAN}

Init ==
    /\ \E session \in SessionArguments :
         /\ sessions = IF session = None THEN <<>> ELSE <<Val(session)>>
         /\ _session = IF session = None THEN None ELSE Some(1)
         /\ _owned_session = OwnedSession(session)
    /\ scope = "outside"
    /\ pc = "idle"
    /\ method = "none"
    /\ args = NoArgs
    /\ temperature = None
    /\ mode = None
    /\ client_id = None
    /\ requests = <<>>
    /\ response = NoResponse
    /\ outcome = Pending
    /\ result = Pending
    /\ last = "__init__"
    /\ previous = NoPrevious
    /\ closing = NotClosing

-----------------------------------------------------------------------------
(* The caller's steps on the session life cycle *)

\* async with heater: entry
__aenter__ ==
    /\ Idle
    /\ ~Closing
    /\ scope = "outside"
    /\ _ensure_session
    /\ scope' = "inside"
    /\ ResetCall
    /\ last' = "__aenter__"
    /\ previous' = NoPrevious
    /\ closing' = NotClosing

\* how the body of the scoped block can end in the current state: it completed
\* (None), it raised an error of its own, or the error of the heater call that has
\* just ended leaves it
BodyOutcomes ==
    IF Idle THEN {None, Some([type |-> "RuntimeError"])}
    ELSE IF pc = "done" /\ result.kind = "raise" THEN {Some(result.exc)}
    ELSE {}

\* mutant of aexit_return_value: __aexit__ returns True
aexit_return_value_true == [type |-> "bool", value |-> TRUE]

\* what __aexit__ returns: it has no return statement
aexit_return_value == PyNone

\* the end of the async with statement: the error of the body propagates unless
\* __aexit__ returned a true value
WithStatement(exc, exit_value) ==
    LET \* Python's truth value of what __aexit__ returned
        Truthy(v) == v.type = "bool" /\ v.value
    IN IF exc # None /\ ~Truthy(exit_value) THEN Raise(Val(exc)) ELSE Return(PyNone)

\* the scoped exit has ended: the error that left the body and what the async with
\* statement gives to the caller
Exited(exc) ==
    [at |-> "exited", exc |-> exc, result |-> WithStatement(exc, aexit_return_value)]

\* async with heater: exit, whether the body completed or raised, when close() runs
\* to its end without suspending
__aexit__ ==
    /\ scope = "inside"
    /\ ~Closing
    /\ \E exc \in BodyOutcomes : closing' = Exited(exc)
    /\ close("__aexit__")
    /\ scope' = "outside"
    /\ ResetCall
    /\ last' = "__aexit__"
    /\ previous' = NoPrevious

\* async with heater: exit, up to the point where close() suspends in
\* "await self._session.close()"
aexit_awaits_session_close ==
    /\ scope = "inside"
    /\ ~Closing
    /\ \E exc \in BodyOutcomes : closing' = [at |-> "__aexit__", exc |-> exc]
    /\ close_suspends("__aexit__")
    /\ ResetCall
    /\ last' = "aexit_awaits_session_close"
    /\ previous' = NoPrevious
    /\ UNCHANGED scope

\* the suspended scoped exit resumes in close() and ends; the calls of other tasks
\* are where they are
aexit_resumes ==
    /\ closing.at = "__aexit__"
    /\ close_resumes
    /\ closing' = Exited(closing.exc)
    /\ scope' = "outside"
    /\ last' = "__aexit__"
    /\ UNCHANGED <<callVars, previous>>

\* await heater.close(), when it runs to its end without suspending
call_close ==
    /\ Idle
    /\ ~Closing
    /\ close("close")
    /\ ResetCall
    /\ last' = "close"
    /\ previous' = NoPrevious
    /\ closing' = NotClosing
    /\ UNCHANGED scope

\* await heater.close(), up to the point where it suspends in
\* "await self._session.close()"
close_awaits_session_close ==
    /\ Idle
    /\ ~Closing
    /\ close_suspends("close")
    /\ closing' = [at |-> "close"]
    /\ ResetCall
    /\ last' = "close_awaits_session_close"
    /\ previous' = NoPrevious
    /\ UNCHANGED scope

\* the suspended close() resumes and ends; the calls of other tasks are where they are
close_returns ==
    /\ closing.at = "close"
    /\ close_resumes
    /\ closing' = NotClosing
    /\ last' = "close"
    /\ UNCHANGED <<scope, callVars, previous>>

\* the caller closes the session it supplied
caller_closes_session ==
    /\ Idle
    /\ ~Closing
    /\ closing' = NotClosing
    /\ \E i \in DOMAIN sessions :
         /\ sessions[i].creator = "caller"
         /\ ~sessions[i].closed
         /\ sessions' = [sessions EXCEPT ![i].closed = TRUE, ![i].closed_by = "caller",
                                         ![i].closes = @ + 1, ![i].closed_in = "caller"]
    /\ ResetCall
    /\ last' = "caller_closes_session"
    /\ previous' = NoPrevious
    /\ UNCHANGED <<scope, _session, _owned_session>>

\* the caller has taken the result of the call that ended and goes on
call_returns ==
    /\ pc = "done"
    /\ ResetCall
    /\ last' = "call_returns"
    /\ previous' = Kept
    /\ closing' = StillClosing
    /\ UNCHANGED <<scope, sessionVars>>

-----------------------------------------------------------------------------
(* The caller invokes a public method *)

Start(name, t, m) ==
    /\ Idle
    /\ Closing => name \in CallsOfOtherTasks
    /\ closing' = StillClosing
    /\ method' = name
    /\ args' = [temperature |-> t, mode |-> m]
    /\ response' = NoResponse
    /\ outcome' = Pending
    /\ last' = name
    /\ previous' = (IF name = "get_status" THEN previous ELSE NoPrevious)
    /\ UNCHANGED scope

call_get_info ==
    /\ Start("get_info", None, None)
    /\ Await("get_info", "GET", "info", None, Locals(None, None, None), <<>>)

call_get_status ==
    /\ Start("get_status", None, None)
    /\ Await("get_status", "GET", "status", None, Locals(None, None, None), <<>>)

call_get_schedule ==
    /\ Start("get_schedule", None, None)
    /\ Await("get_schedule", "GET", "Schedule", None, Locals(None, None, None), <<>>)

call_is_online ==
    /\ Start("is_online", None, None)
    /\ Await("is_online", "GET", "status", None, Locals(None, None, None), <<>>)

call_has_power_measurement_support ==
    /\ Start("has_power_measurement_support", None, None)
    /\ Await("has_power_measurement_support", "GET", "info", None,
             Locals(None, None, None), <<>>)

call_get_current_temperature ==
    /\ Start("get_current_temperature", None, None)
    /\ Await("get_current_temperature", "GET", "info", None, Locals(None, None, None), <<>>)

call_get_target_temperature ==
    /\ Start("get_target_temperature", None, None)
    /\ Await("get_target_temperature", "GET", "status", None, Locals(None, None, None), <<>>)

call_is_heating ==
    /\ Start("is_heating", None, None)
    /\ Await("is_heating", "GET", "status", None, Locals(None, None, None), <<>>)

call_get_signal_strength ==
    /\ Start("get_signal_strength", None, None)
    /\ Await("get_signal_strength", "GET", "status", None, Locals(None, None, None), <<>>)

call_is_locked ==
    /\ Start("is_locked", None, None)
    /\ Await("is_locked", "GET", "status", None, Locals(None, None, None), <<>>)

call_get_error_code ==
    /\ Start("get_error_code", None, None)
    /\ Await("get_error_code", "GET", "status", None, Locals(None, None, None), <<>>)

call_get_daily_energy ==
    /\ Start("get_daily_energy", None, None)
    /\ Await("get_daily_energy", "GET", "status", None, Locals(None, None, None), <<>>)

call_get_power_consumption ==
    /\ Start("get_power_consumption", None, None)
    /\ Await("get_power_consumption", "GET", "status", None, Locals(None, None, None), <<>>)

call_set_temperature_and_mode ==
    \E t \in Temperatures, m \in OperationMode :
        /\ Start("set_temperature_and_mode", Some(t), Some(m))
        /\ set_temperature_and_mode(t, m, <<>>)

call_set_temperature ==
    \E t \in Temperatures, m \in {None} \cup {Some(x) : x \in OperationMode} :
        /\ Start("set_temperature", Some(t), m)
        /\ set_temperature(t, m, <<>>)

call_set_operation_mode ==
    \E m \in OperationMode :
        /\ Start("set_operation_mode", None, Some(m))
        /\ set_operation_mode(m, <<>>)

call_set_power_mode ==
    \E m \in OperationMode :
        /\ Start("set_power_mode", None, Some(m))
        /\ set_power_mode(m, <<>>)

call_set_comfort_mode ==
    /\ Start("set_comfort_mode", None, None)
    /\ set_operation_mode("COMFORT", <<>>)

call_set_eco_mode ==
    /\ Start("set_eco_mode", None, None)
    /\ set_operation_mode("ECO", <<>>)

call_set_antifreeze_mode ==
    /\ Start("set_antifreeze_mode", None, None)
    /\ set_operation_mode("ANTIFREEZE", <<>>)

call_set_standby ==
    /\ Start("set_standby", None, None)
    /\ set_operation_mode("STANDBY", <<>>)

call_set_manual_temperature ==
    \E t \in Temperatures :
        /\ Start("set_manual_temperature", Some(t), None)
        /\ set_temperature(t, Some("MANUAL"), <<>>)

-----------------------------------------------------------------------------
(* A reply arrives and the suspended coroutine runs on *)

Resume(label, name, reply) ==
    /\ pc = label
    /\ response' = reply
    /\ outcome' = Receive(reply)
    /\ last' = name
    /\ UNCHANGED <<scope, method, args, previous, closing>>

\* get_info (client.py 164-169)
get_info_reply ==
    /\ pc = "get_info"
    /\ \E reply \in Replies("info") :
        /\ Resume("get_info", "get_info_reply", reply)
        /\ Finish(get_info(Receive(reply)), CurrentLocals, requests)

\* get_status (client.py 178-183)
get_status_reply ==
    /\ pc = "get_status"
    /\ \E reply \in Replies("status") :
        /\ Resume("get_status", "get_status_reply", reply)
        /\ Finish(get_status(Receive(reply)), CurrentLocals, requests)

\* get_schedule (client.py 192-197)
get_schedule_reply ==
    /\ pc = "get_schedule"
    /\ \E reply \in Replies("Schedule") :
        /\ Resume("get_schedule", "get_schedule_reply", reply)
        /\ Finish(get_schedule(Receive(reply)), CurrentLocals, requests)

\* is_online (client.py 332-336)
is_online_reply ==
    /\ pc = "is_online"
    /\ \E reply \in Replies("status") :
        /\ Resume("is_online", "is_online_reply", reply)
        /\ Finish(is_online(get_status(Receive(reply))), CurrentLocals, requests)

\* has_power_measurement_support (client.py 345-346)
has_power_measurement_support_reply ==
    /\ pc = "has_power_measurement_support"
    /\ \E reply \in Replies("info") :
        /\ Resume("has_power_measurement_support", "has_power_measurement_support_reply",
                  reply)
        /\ Finish(has_power_measurement_support(get_info(Receive(reply))),
                  CurrentLocals, requests)

\* get_current_temperature (client.py 380-381)
get_current_temperature_reply ==
    /\ pc = "get_current_temperature"
    /\ \E reply \in Replies("info") :
        /\ Resume("get_current_temperature", "get_current_temperature_reply", reply)
        /\ Finish(get_current_temperature(get_info(Receive(reply))), CurrentLocals, requests)

\* get_target_temperature (client.py 385-386)
get_target_temperature_reply ==
    /\ pc = "get_target_temperature"
    /\ \E reply \in Replies("status") :
        /\ Resume("get_target_temperature", "get_target_temperature_reply", reply)
        /\ Finish(get_target_temperature(get_status(Receive(reply))), CurrentLocals, requests)

\* is_heating (client.py 390-393)
is_heating_reply ==
    /\ pc = "is_heating"
    /\ \E reply \in Replies("status") :
        /\ Resume("is_heating", "is_heating_reply", reply)
        /\ Finish(is_heating(get_status(Receive(reply))), CurrentLocals, requests)

\* get_signal_strength (client.py 397-398)
get_signal_strength_reply ==
    /\ pc = "get_signal_strength"
    /\ \E reply \in Replies("status") :
        /\ Resume("get_signal_strength", "get_signal_strength_reply", reply)
        /\ Finish(get_signal_strength(get_status(Receive(reply))), CurrentLocals, requests)

\* is_locked (client.py 402-403)
is_locked_reply ==
    /\ pc = "is_locked"
    /\ \E reply \in Replies("status") :
        /\ Resume("is_locked", "is_locked_reply", reply)
        /\ Finish(is_locked(get_status(Receive(reply))), CurrentLocals, requests)

\* get_error_code (client.py 407-408)
get_error_code_reply ==
    /\ pc = "get_error_code"
    /\ \E reply \in Replies("status") :
        /\ Resume("get_error_code", "get_error_code_reply", reply)
        /\ Finish(get_error_code(get_status(Receive(reply))), CurrentLocals, requests)

\* get_daily_energy (client.py 412-413)
get_daily_energy_reply ==
    /\ pc = "get_daily_energy"
    /\ \E reply \in Replies("status") :
        /\ Resume("get_daily_energy", "get_daily_energy_reply", reply)
        /\ Finish(get_daily_energy(get_status(Receive(reply))), CurrentLocals, requests)

\* get_power_consumption (client.py 417-418)
get_power_consumption_reply ==
    /\ pc = "get_power_consumption"
    /\ \E reply \in Replies("status") :
        /\ Resume("get_power_consumption", "get_power_consumption_reply", reply)
        /\ Finish(get_power_consumption(get_status(Receive(reply))), CurrentLocals, requests)

\* set_temperature after "status = await self.get_status()" (client.py 268-286)
set_temperature_get_status ==
    /\ pc = "set_temperature.get_status"
    /\ \E reply \in Replies("status") :
        /\ Resume("set_temperature.get_status", "set_temperature_get_status", reply)
        /\ LET status == get_status(Receive(reply)) IN
           IF status.kind = "raise"
           THEN Finish(status, CurrentLocals, requests)
           ELSE set_temperature_checked(
                    Val(temperature),
                    IF status.value.operative_mode # None
                    THEN Val(status.value.operative_mode) ELSE "MANUAL",
                    requests)

\* set_operation_mode after "device_info = await self.get_info()" (client.py 304-323)
set_operation_mode_get_info ==
    /\ pc = "set_operation_mode.get_info"
    /\ \E reply \in Replies("info") :
        /\ Resume("set_operation_mode.get_info", "set_operation_mode_get_info", reply)
        /\ LET device_info == get_info(Receive(reply)) IN
           IF device_info.kind = "raise"
           THEN Finish(device_info, CurrentLocals, requests)
           ELSE IF is_power_mode(Val(mode))
           THEN set_temperature_and_mode(0, Val(mode), requests)
           ELSE IF is_preset_mode(Val(mode))
           THEN LET preset_temp == get_preset_setpoint(Val(mode), device_info.value) IN
                IF preset_temp = None
                THEN Finish(Raise(ValidationError("No preset temperature found")),
                            CurrentLocals, requests)
                ELSE set_temperature_and_mode(Val(preset_temp), Val(mode), requests)
           ELSE Await("set_operation_mode.get_status", "GET", "status", None,
                      CurrentLocals, requests)

\* set_operation_mode after "status = await self.get_status()" (client.py 320-323)
set_operation_mode_get_status ==
    /\ pc = "set_operation_mode.get_status"
    /\ \E reply \in Replies("status") :
        /\ Resume("set_operation_mode.get_status", "set_operation_mode_get_status", reply)
        /\ LET status == get_status(Receive(reply)) IN
           IF status.kind = "raise"
           THEN Finish(status, CurrentLocals, requests)
           ELSE set_temperature_and_mode(PyOr(status.value.set_point, DEFAULT_SETPOINT),
                                         Val(mode), requests)

\* mutant of set_temperature_and_mode_get_info: for a preset mode the body takes the
\* preset of the Info just fetched
set_temperature_and_mode_get_info_fresh_preset ==
    /\ pc = "set_temperature_and_mode.get_info"
    /\ \E reply \in Replies("info") :
        /\ Resume("set_temperature_and_mode.get_info",
                  "set_temperature_and_mode_get_info", reply)
        /\ LET device_info == get_info(Receive(reply)) IN
           IF device_info.kind = "raise"
           THEN Finish(device_info, CurrentLocals, requests)
           ELSE LET fresh == get_preset_setpoint(Val(mode), device_info.value) IN
                Await("set_temperature_and_mode.put", "PUT", "setpoint",
                      Some(SetpointBody(device_info.value.client_id,
                                        IF fresh # None THEN Val(fresh) ELSE Val(temperature),
                                        Val(mode))),
                      Locals(temperature, mode, device_info.value.client_id), requests)

\* set_temperature_and_mode after "device_info = await self.get_info()" (client.py 218-237)
set_temperature_and_mode_get_info ==
    /\ pc = "set_temperature_and_mode.get_info"
    /\ \E reply \in Replies("info") :
        /\ Resume("set_temperature_and_mode.get_info",
                  "set_temperature_and_mode_get_info", reply)
        /\ LET device_info == get_info(Receive(reply)) IN
           IF device_info.kind = "raise"
           THEN Finish(device_info, CurrentLocals, requests)
           ELSE Await("set_temperature_and_mode.put", "PUT", "setpoint",
                      Some(SetpointBody(device_info.value.client_id, Val(temperature),
                                        Val(mode))),
                      Locals(temperature, mode, device_info.value.client_id), requests)

\* set_temperature_and_mode after "await self._request("PUT", ...)" (client.py 237-241)
set_temperature_and_mode_put ==
    /\ pc = "set_temperature_and_mode.put"
    /\ \E reply \in Replies("setpoint") :
        /\ Resume("set_temperature_and_mode.put", "set_temperature_and_mode_put", reply)
        /\ Finish(IF Receive(reply).kind = "raise" THEN Receive(reply) ELSE Return(PyNone),
                  CurrentLocals, requests)

-----------------------------------------------------------------------------

Next ==
    \/ __aenter__
    \/ __aexit__
    \/ aexit_awaits_session_close
    \/ aexit_resumes
    \/ call_close
    \/ close_awaits_session_close
    \/ close_returns
    \/ caller_closes_session
    \/ call_returns
    \/ call_get_info
    \/ call_get_status
    \/ call_get_schedule
    \/ call_is_online
    \/ call_has_power_measurement_support
    \/ call_get_current_temperature
    \/ call_get_target_temperature
    \/ call_is_heating
    \/ call_get_signal_strength
    \/ call_is_locked
    \/ call_get_error_code
    \/ call_get_daily_energy
    \/ call_get_power_consumption
    \/ call_set_temperature_and_mode
    \/ call_set_temperature
    \/ call_set_operation_mode
    \/ call_set_power_mode
    \/ call_set_comfort_mode
    \/ call_set_eco_mode
    \/ call_set_antifreeze_mode
    \/ call_set_standby
    \/ call_set_manual_temperature
    \/ get_info_reply
    \/ get_status_reply
    \/ get_schedule_reply
    \/ is_online_reply
    \/ has_power_measurement_support_reply
    \/ get_current_temperature_reply
    \/ get_target_temperature_reply
    \/ is_heating_reply
    \/ get_signal_strength_reply
    \/ is_locked_reply
    \/ get_error_code_reply
    \/ get_daily_energy_reply
    \/ get_power_consumption_reply
    \/ set_temperature_get_status
    \/ set_operation_mode_get_info
    \/ set_operation_mode_get_status
    \/ set_temperature_and_mode_get_info
    \/ set_temperature_and_mode_put

Spec == Init /\ [][Next]_vars

-----------------------------------------------------------------------------
(* Properties *)

ClientSessions == {i \in DOMAIN sessions : sessions[i].creator = "client"}
CallerSessions == {i \in DOMAIN sessions : sessions[i].creator = "caller"}

Puts == {i \in DOMAIN requests : requests[i].method = "PUT"}
Gets == {i \in DOMAIN requests : requests[i].method = "GET"}

Finished == pc = "done"

\* _request gave the call a record to build its object from
GotRecord == outcome.kind = "return" /\ outcome.value.type = "dict"

\* the from_dict an endpoint's record goes through
FromDict(endpoint, data) ==
    CASE endpoint = "info" -> InfoFromDict(data)
      [] endpoint = "Schedule" -> ScheduleFromDict(data)
      [] OTHER -> StatusFromDict(data)

\* _request gave a record and from_dict built the object of the endpoint from it
GotObject(endpoint) == GotRecord /\ FromDict(endpoint, outcome.value).kind = "return"
Raised(type) == Finished /\ result.kind = "raise" /\ result.exc.type = type

OutOfRange(t) == t < MIN_TEMPERATURE \/ t > MAX_TEMPERATURE

\* C1: when a scoped block exits, every session the client created itself is closed,
\* also a session it created because the one it held was absent or already closed.
C1_ExitClosesCreatedSessions ==
    last = "__aexit__" => \A i \in ClientSessions : sessions[i].closed

\* C2: a session supplied by the caller is never closed by the client: it is closed
\* exactly when the caller closed it.
C2_CallerSessionUntouched ==
    \A i \in CallerSessions :
        /\ sessions[i].closed_by # "client"
        /\ sessions[i].closed <=> sessions[i].closed_by = "caller"

\* C2 witness: a scoped block has exited (close() ran) and the caller's session,
\* which the client holds, is still open.
C2_Witness ==
    /\ last = "__aexit__"
    /\ _session = Some(1)
    /\ sessions[1].creator = "caller"
    /\ ~sessions[1].closed

\* C3: a request the device answers with HTTP 401 makes _request raise
\* StoneConnectAuthenticationError, on a session of the client's as on the caller's.
C3_Status401RaisesAuthenticationError ==
    (response.kind = "http" /\ response.status = 401)
        => (outcome.kind = "raise"
            /\ outcome.exc.type = "StoneConnectAuthenticationError")

\* C4: HTTP 404 makes _request raise StoneConnectAPIError naming the endpoint, any
\* other non-success status StoneConnectAPIError with the status and the body text;
\* no other error kind is raised and nothing is returned.
C4_ErrorStatusRaisesAPIError ==
    (response.kind = "http" /\ ~ResponseOk(response) /\ response.status # 401)
        => /\ outcome.kind = "raise"
           /\ outcome.exc.type = "StoneConnectAPIError"
           /\ IF response.status = 404
              THEN outcome.exc.endpoint = requests[Len(requests)].endpoint
              ELSE /\ outcome.exc.status = response.status
                   /\ outcome.exc.text = ResponseText(response)

\* C5: every transport failure of a request (DNS, TCP, TLS, timeout) surfaces from
\* _request as StoneConnectConnectionError.
C5_TransportFailureRaisesConnectionError ==
    response.kind = "transport"
        => (outcome.kind = "raise"
            /\ outcome.exc.type = "StoneConnectConnectionError")

\* C6: a successful response whose body is empty or not JSON makes _request return
\* {} (empty) or {"response": text} (text); it never raises.
C6_NonJsonBodyReturnsRecord ==
    (response.kind = "http" /\ ResponseOk(response) /\ response.body.kind # "json")
        => outcome = Return(IF response.body.kind = "empty"
                            THEN Dict(EmptyItems)
                            ELSE Dict([k \in {"response"} |-> response.body.text]))

Mutators == {"set_temperature_and_mode", "set_temperature", "set_operation_mode",
             "set_power_mode", "set_comfort_mode", "set_eco_mode",
             "set_antifreeze_mode", "set_standby", "set_manual_temperature"}

\* C7: a public mutator either completes or raises one of the four
\* StoneConnect error kinds, never another exception type.
C7_MutatorsRaiseOnlyTypedErrors ==
    (method \in Mutators /\ Finished)
        => (result.kind = "return" \/ result.exc.type \in StoneConnectErrors)

\* the calls of C8: set_temperature with any mode argument (set_manual_temperature
\* is set_temperature with MANUAL), set_temperature_and_mode with a non-power mode
C8_Case ==
    /\ args.temperature # None
    /\ OutOfRange(Val(args.temperature))
    /\ \/ method \in {"set_temperature", "set_manual_temperature"}
       \/ method = "set_temperature_and_mode" /\ ~is_power_mode(Val(args.mode))

\* C8: a caller's temperature outside [0,30] is rejected with
\* StoneConnectValidationError before any request: no GET and no PUT is sent.
C8_OutOfRangeRejectedBeforeNetwork ==
    C8_Case => (Raised("StoneConnectValidationError") /\ requests = <<>>)

\* C8 witness: set_temperature(31) with the mode omitted was rejected.
C8_Witness ==
    /\ C8_Case
    /\ method = "set_temperature"
    /\ args.mode = None
    /\ Val(args.temperature) > MAX_TEMPERATURE
    /\ Raised("StoneConnectValidationError")

\* the calls of C9: set_temperature_and_mode(t, m) and set_operation_mode(m)
\* (set_power_mode(m) is set_operation_mode(m)) for a power mode m
C9_Case ==
    /\ method \in {"set_temperature_and_mode", "set_operation_mode", "set_power_mode"}
    /\ is_power_mode(Val(args.mode))

\* C9: for a power mode the PUT to setpoint carries Set_Point 0 whatever the
\* temperature argument and the device's state; the call issues one PUT, never two.
C9_PowerModeSendsZero ==
    C9_Case =>
        /\ \A i \in Puts :
             /\ requests[i].endpoint = "setpoint"
             /\ Val(requests[i].data).Set_Point = 0
             /\ Val(requests[i].data).Operative_Mode = ModeValue(Val(args.mode))
        /\ Cardinality(Puts) <= 1
        /\ (Finished /\ result.kind = "return") => Cardinality(Puts) = 1

\* C9 witness: set_temperature_and_mode(31, HIGH) completed, having sent its PUT.
C9_Witness ==
    /\ C9_Case
    /\ method = "set_temperature_and_mode"
    /\ OutOfRange(Val(args.temperature))
    /\ Finished
    /\ result.kind = "return"
    /\ Cardinality(Puts) = 1

\* C10: every PUT to setpoint follows a successful GET info of the same call and
\* carries the client id that GET info returned, the wire value of the mode and the
\* setpoint; no PUT is sent without a client identifier having been obtained.
C10_PutCarriesObtainedClientId ==
    \A i \in Puts :
        /\ i > 1
        /\ requests[i - 1].method = "GET"
        /\ requests[i - 1].endpoint = "info"
        /\ Val(requests[i].data).Client_ID = client_id
        /\ Val(requests[i].data).Operative_Mode = ModeValue(Val(mode))
        /\ client_id # None

\* The part of C10 the code keeps: a PUT is the last request of its call, directly
\* follows a GET info that _request answered with a record, and carries the
\* Client_ID of that record (absent when the record has none), the wire value of
\* the mode and the setpoint.
C10_PutFollowsGetInfo ==
    /\ \A i \in Puts :
         /\ i = Len(requests)
         /\ i > 1
         /\ requests[i - 1].method = "GET"
         /\ requests[i - 1].endpoint = "info"
         /\ requests[i].endpoint = "setpoint"
         /\ Val(requests[i].data).Operative_Mode = ModeValue(Val(mode))
         /\ Val(requests[i].data).Set_Point =
                (IF is_power_mode(Val(mode)) THEN 0 ELSE Val(temperature))
    /\ pc = "set_temperature_and_mode.put" =>
         /\ outcome.kind = "return"
         /\ outcome.value.type = "dict"
         /\ Val(InFlight.data).Client_ID = Get(outcome.value, "Client_ID")

-----------------------------------------------------------------------------
(* set_temperature: mode resolution and dispatch *)

GetInfoRequest(i) ==
    /\ i \in DOMAIN requests
    /\ requests[i].method = "GET"
    /\ requests[i].endpoint = "info"

GetStatusRequest(i) ==
    /\ i \in DOMAIN requests
    /\ requests[i].method = "GET"
    /\ requests[i].endpoint = "status"

\* the mode a status record reports, MANUAL when it reports none it knows
ReportedModeOrManual(data) ==
    IF /\ "Operative_Mode" \in DOMAIN data.items
       /\ \E m \in OperationMode : ModeValue(m) = data.items["Operative_Mode"]
    THEN CHOOSE m \in OperationMode : ModeValue(m) = data.items["Operative_Mode"]
    ELSE "MANUAL"

\* after n requests set_temperature handed (temperature, m) to set_temperature_and_mode
C11_Delegated(m, n) ==
    /\ GetInfoRequest(n + 1)
    /\ mode = Some(m)
    /\ temperature = args.temperature

\* after n requests set_temperature raised its mode error
C11_Rejected(m, n) ==
    /\ Raised("StoneConnectValidationError")
    /\ Len(requests) = n
    /\ result.exc.msg =
         (IF m \in {"HIGH", "MEDIUM", "LOW"} THEN "Power mode: use set_operation_mode()"
          ELSE IF m \in {"COMFORT", "ECO", "ANTIFREEZE"}
          THEN "Preset mode: use set_operation_mode()"
          ELSE "Mode doesn't support custom temperature setpoints")

C11_Dispatch(m, n) ==
    IF m \in {"MANUAL", "BOOST"} THEN C11_Delegated(m, n) ELSE C11_Rejected(m, n)

C11_Case ==
    /\ method = "set_temperature"
    /\ ~OutOfRange(Val(args.temperature))

\* C11: for an in-range temperature set_temperature resolves the mode as the one
\* given, or the one a GET status reports, or MANUAL when that is absent; it hands
\* over to set_temperature_and_mode exactly for MANUAL and BOOST, and otherwise raises
\* StoneConnectValidationError (naming set_operation_mode() for power and preset
\* modes) and sends no PUT.
C11_SetTemperatureResolvesMode ==
    C11_Case =>
        /\ args.mode # None => C11_Dispatch(Val(args.mode), 0)
        /\ args.mode = None =>
             /\ GetStatusRequest(1)
             /\ (/\ last = "set_temperature_get_status"
                 /\ GotObject("status"))
                  => C11_Dispatch(ReportedModeOrManual(outcome.value), 1)
        /\ Puts # {} => mode \in {Some("MANUAL"), Some("BOOST")}

\* C11 witness: set_temperature(t) without a mode read a status reporting BOOST
\* and went on into set_temperature_and_mode.
C11_Witness ==
    /\ C11_Case
    /\ args.mode = None
    /\ last = "set_temperature_get_status"
    /\ outcome.kind = "return"
    /\ Get(outcome.value, "Operative_Mode") = Some("BST")
    /\ pc = "set_temperature_and_mode.get_info"
    /\ mode = Some("BOOST")

-----------------------------------------------------------------------------
(* set_operation_mode *)

\* the calls that run set_operation_mode's body from its first line
SetOperationModeCalls ==
    {"set_operation_mode", "set_power_mode", "set_comfort_mode", "set_eco_mode",
     "set_antifreeze_mode", "set_standby"}

\* the Info key that holds the preset of a preset mode
PresetKey(m) ==
    CASE m = "COMFORT" -> "Comfort_Setpoint"
      [] m = "ECO" -> "Eco_Setpoint"
      [] m = "ANTIFREEZE" -> "Antifreeze_Setpoint"

\* set_operation_mode has just read a record from the endpoint it asked and built
\* the Info or Status from it
JustRead(action) ==
    /\ last = action
    /\ GotObject(IF action = "set_operation_mode_get_info" THEN "info" ELSE "status")

C12_Case ==
    /\ method \in SetOperationModeCalls
    /\ mode \in {Some("COMFORT"), Some("ECO"), Some("ANTIFREEZE")}

\* what set_operation_mode does with the Info it read, for a preset mode
C12_AfterInfo ==
    (C12_Case /\ JustRead("set_operation_mode_get_info")) =>
        LET preset == Get(outcome.value, PresetKey(Val(mode))) IN
        IF preset = None
        THEN /\ Raised("StoneConnectValidationError")
             /\ result.exc.msg = "No preset temperature found"
             /\ Len(requests) = 1
        ELSE IF OutOfRange(Val(preset))
        THEN /\ Raised("StoneConnectValidationError")
             /\ Len(requests) = 1
        ELSE /\ pc = "set_temperature_and_mode.get_info"
             /\ temperature = preset
             /\ GetInfoRequest(2)

\* the preset taken from the Info is what the PUT carries
C12_PutStep ==
    (C12_Case /\ pc = "set_temperature_and_mode.get_info") =>
        /\ pc' = pc => temperature' = temperature
        /\ Len(requests') > Len(requests) =>
             /\ requests'[Len(requests')].method = "PUT"
             /\ Val(requests'[Len(requests')].data).Set_Point = Val(temperature)
             /\ Val(requests'[Len(requests')].data).Operative_Mode = ModeValue(Val(mode))

\* C12: for a preset mode set_operation_mode takes the matching preset field of the
\* Info it fetched and every PUT it sends carries that value as Set_Point; when the
\* preset is absent it raises StoneConnectValidationError "No preset temperature
\* found" and sends no PUT.
C12_PresetModeSendsPreset ==
    /\ [](C12_AfterInfo /\ (C12_Case /\ Puts # {} => Len(requests) = 3))
    /\ [][C12_PutStep]_vars

\* C12 witness: set_operation_mode(ECO) read an Info with Eco_Setpoint 15 and its
\* PUT is in flight with Set_Point 15.
C12_Witness ==
    /\ method = "set_operation_mode"
    /\ args.mode = Some("ECO")
    /\ pc = "set_temperature_and_mode.put"
    /\ GetInfoRequest(1)
    /\ Val(InFlight.data).Set_Point = 15

C13_Case ==
    /\ method \in SetOperationModeCalls
    /\ mode \in {Some(m) : m \in {"STANDBY", "SCHEDULE", "HOLIDAY", "MANUAL", "BOOST"}}

\* the setpoint the status record reports, 20 only when it reports none
ReportedSetpointOrDefault(data) ==
    IF "Set_Point" \in DOMAIN data.items THEN data.items["Set_Point"] ELSE 20

\* the PUT sent right after the status was read carries the status setpoint
C13_PutStep ==
    (/\ C13_Case
     /\ JustRead("set_operation_mode_get_status")
     /\ Len(requests') > Len(requests)) =>
        /\ requests'[Len(requests')].method = "PUT"
        /\ Val(requests'[Len(requests')].data).Set_Point =
               ReportedSetpointOrDefault(outcome.value)

\* C13: for STANDBY, SCHEDULE, HOLIDAY, MANUAL and BOOST set_operation_mode fetches
\* the status and its PUT carries the setpoint the status reports, whatever that
\* value is, and 20 only when the status reports no setpoint.
C13_StatusSetpointCarried ==
    /\ [](C13_Case /\ Len(requests) >= 2 => GetStatusRequest(2))
    /\ [][C13_PutStep]_vars

\* the part of C13 the code keeps: a reported setpoint other than 0 is carried
\* into the PUT, and 20 is sent when none is reported
C13_NonZeroSetpointCarried ==
    [][(/\ JustRead("set_operation_mode_get_status")
        /\ Get(outcome.value, "Set_Point") # Some(0)) => C13_PutStep]_vars

-----------------------------------------------------------------------------
(* The requests of the composite operations *)

C14_Case ==
    /\ method \in {"set_operation_mode", "set_temperature"}
    /\ Finished
    /\ result.kind = "return"

\* C14 as stated: each successful call of set_operation_mode or set_temperature
\* issues exactly two requests, one read followed by one write.
C14_ExactlyTwoRequests ==
    C14_Case =>
        /\ Len(requests) = 2
        /\ requests[1].method = "GET"
        /\ requests[2].method = "PUT"

\* the number of requests of a successful call, by its arguments
C14_RequestCount ==
    IF method = "set_temperature"
    THEN (IF args.mode = None THEN 3 ELSE 2)
    ELSE IF Val(args.mode) \in {"HIGH", "MEDIUM", "LOW", "COMFORT", "ECO", "ANTIFREEZE"}
    THEN 3 ELSE 4

C14_ReadsThenOneWrite ==
    C14_Case =>
        /\ Len(requests) = C14_RequestCount
        /\ Puts = {Len(requests)}
        /\ Gets = 1 .. (Len(requests) - 1)

\* a further request of a call goes out only in the step that receives the reply
\* to the request before it
C14_NextAfterReply ==
    (/\ method \in {"set_operation_mode", "set_temperature"}
     /\ requests # <<>>
     /\ requests' # <<>>
     /\ requests' # requests) =>
        /\ requests' = Append(requests, requests'[Len(requests')])
        /\ pc \notin {"idle", "done"}
        /\ response' \in Replies(InFlight.endpoint)
        /\ outcome' = Receive(response')
        /\ outcome'.kind = "return"

\* C14 (amended): each successful call of set_operation_mode or set_temperature
\* issues two to four sequential requests, one to three reads followed by exactly one
\* write, which is the last; a request is never sent before the reply to the previous
\* one is received.
C14_SequentialReadsThenWrite ==
    /\ []C14_ReadsThenOneWrite
    /\ [][C14_NextAfterReply]_vars

\* C14 witness: set_operation_mode(STANDBY) returned after GET info, GET status,
\* GET info and PUT setpoint.
C14_Witness ==
    /\ C14_Case
    /\ method = "set_operation_mode"
    /\ args.mode = Some("STANDBY")
    /\ Len(requests) = 4
    /\ GetInfoRequest(1) /\ GetStatusRequest(2) /\ GetInfoRequest(3)
    /\ Puts = {4}

-----------------------------------------------------------------------------
(* The functions of models.py and the static helpers of the client, applied to
   inputs on a client that was constructed without a session and makes no request *)

PureInit == Init /\ _session = None

\* no function has been applied yet
Fresh == Idle /\ method = "none"

\* a function was applied: the call is recorded and the object is not touched
Applied ==
    /\ last' = method'
    /\ UNCHANGED <<scope, sessionVars, pc, temperature, mode, client_id, requests,
                   response, outcome, previous, closing>>

\* the three OperationMode predicates and the three static helpers on one mode
classify_mode ==
    /\ Fresh
    /\ \E m \in OperationMode :
        /\ method' = "classify_mode"
        /\ args' = [temperature |-> None, mode |-> Some(m)]
        /\ result' = Return([methods |-> [power |-> is_power_mode(m),
                                          preset |-> is_preset_mode(m),
                                          custom |-> is_custom_mode(m)],
                             helpers |-> [power |-> _is_power_mode(m),
                                          preset |-> _is_preset_mode(m),
                                          custom |-> _is_custom_temperature_mode(m)]])
        /\ Applied

\* OperationMode.get_preset_setpoint and StoneConnectHeater._get_preset_setpoint
lookup_preset_setpoint ==
    /\ Fresh
    /\ \E m \in OperationMode, data \in InfoPayloads :
        /\ method' = "get_preset_setpoint"
        /\ InfoFromDict(data).kind = "return"
        /\ args' = [mode |-> m, device_info |-> InfoFromDict(data).value]
        /\ result' = Return([method |-> get_preset_setpoint(m, InfoFromDict(data).value),
                             helper |-> _get_preset_setpoint(m, InfoFromDict(data).value)])
        /\ Applied

\* the lists of at most n elements of S
ListsUpTo(S, n) == UNION {[1..k -> S] : k \in 0..n}

\* ScheduleSlot(hour, minute, set_point)
ScheduleSlot(hour, minute, set_point) ==
    [hour |-> hour, minute |-> minute, set_point |-> set_point]

\* (hour, minute, set_point) of the slots used
SlotTimes == {<<6, 30, 21>>, <<22, 0, 17>>}

\* the days with at most maxSlots slots
ScheduleDays(maxSlots) ==
    [week_day : {0, 6},
     schedule_slots : ListsUpTo({ScheduleSlot(t[1], t[2], t[3]) : t \in SlotTimes}, maxSlots)]

\* the Schedule objects with at most maxDays days of at most maxSlots slots
Schedules(maxDays, maxSlots) ==
    [client_id : {None, Some("c1")},
     weekly_schedule : {None} \cup
                       {Some(l) : l \in ListsUpTo(ScheduleDays(maxSlots), maxDays)},
     last_update : {None, parse_timestamp(Some(JsonNumber(1500))).value}]

\* Schedule.from_dict(schedule.to_dict())
schedule_round_trip ==
    /\ Fresh
    /\ \E schedule \in Schedules(MaxDays, MaxSlots) :
        /\ method' = "Schedule.round_trip"
        /\ args' = [schedule |-> schedule]
        /\ result' = Return([wire |-> ScheduleToDict(schedule),
                             back |-> ScheduleFromDict(ScheduleToDict(schedule)).value])
        /\ Applied

\* the Operative_Mode values of a response: missing, unrecognised, or a wire code
OperativeModeValues ==
    {None, Some("UNKNOWN_MODE")} \cup {Some(ModeValue(m)) : m \in OperationMode}

\* the Use_Mode values of a response: missing, unrecognised, or a wire code
UseModeValues ==
    {None, Some("UNKNOWN_USE")} \cup {Some(UseModeValue(u)) : u \in UseMode}

\* Info.from_dict on a GET info response
info_from_dict ==
    /\ Fresh
    /\ \E r \in [Client_ID : {None, Some("c1")},
                 Set_Point : {None, Some(21)},
                 Operative_Mode : OperativeModeValues,
                 Use_Mode : UseModeValues,
                 Holiday : {None} \cup {Some(h) : h \in HolidayValues},
                 Last_Update : {None} \cup {Some(t) : t \in TimestampValues}] :
        /\ method' = "Info.from_dict"
        /\ args' = [data |-> MakeDict(r)]
        /\ result' = InfoFromDict(MakeDict(r))
        /\ Applied

\* Status.from_dict on a GET status response
status_from_dict ==
    /\ Fresh
    /\ \E r \in [Client_ID : {None, Some("c1")},
                 Set_Point : {None, Some(21)},
                 Operative_Mode : OperativeModeValues,
                 Last_Update : {None} \cup {Some(t) : t \in TimestampValues}] :
        /\ method' = "Status.from_dict"
        /\ args' = [data |-> MakeDict(r)]
        /\ result' = StatusFromDict(MakeDict(r))
        /\ Applied

\* the temperatures handed to _validate_temperature
ValidatedTemperatures ==
    (MIN_TEMPERATURE - TempMargin) .. (MAX_TEMPERATURE + TempMargin)

\* StoneConnectHeater._validate_temperature(t), a static method
validate_temperature ==
    /\ Fresh
    /\ \E t \in ValidatedTemperatures :
        /\ method' = "_validate_temperature"
        /\ args' = [temperature |-> Some(t), mode |-> None]
        /\ result' = _validate_temperature(t)
        /\ Applied

PureNext ==
    \/ classify_mode
    \/ lookup_preset_setpoint
    \/ schedule_round_trip
    \/ info_from_dict
    \/ status_from_dict
    \/ validate_temperature

PureSpec == PureInit /\ [][PureNext]_vars

\* C15: the classification partitions the eleven modes into power (HIGH, MEDIUM,
\* LOW), preset (COMFORT, ECO, ANTIFREEZE), custom (MANUAL, BOOST) and none of them
\* (STANDBY, SCHEDULE, HOLIDAY); at most one predicate is true of a mode; the
\* OperationMode methods and the client's static helpers agree on every mode.
C15_ClassificationPartitions ==
    method = "classify_mode" =>
        LET m == Val(args.mode)
            r == result.value
            expected == [power |-> m \in {"HIGH", "MEDIUM", "LOW"},
                         preset |-> m \in {"COMFORT", "ECO", "ANTIFREEZE"},
                         custom |-> m \in {"MANUAL", "BOOST"}]
        IN /\ r.methods = expected
           /\ r.helpers = expected
           /\ \A c \in {r.methods, r.helpers} :
                /\ ~(c.power /\ c.preset)
                /\ ~(c.power /\ c.custom)
                /\ ~(c.preset /\ c.custom)
           /\ (m \in {"STANDBY", "SCHEDULE", "HOLIDAY"}) =
                  (~r.methods.power /\ ~r.methods.preset /\ ~r.methods.custom)

\* C15 witness: ANTIFREEZE was classified, as a preset mode by both families.
C15_Witness ==
    /\ method = "classify_mode"
    /\ args.mode = Some("ANTIFREEZE")
    /\ result.value.methods.preset
    /\ result.value.helpers.preset

\* C16: the preset setpoint of COMFORT, ECO, ANTIFREEZE is the Info's
\* comfort_setpoint, eco_setpoint, antifreeze_setpoint (absent when the field is),
\* it is absent for the eight other modes whatever the Info holds, and
\* OperationMode.get_preset_setpoint and StoneConnectHeater._get_preset_setpoint
\* return the same for every mode and Info.
C16_PresetLookup ==
    method = "get_preset_setpoint" =>
        LET info == args.device_info
            expected == CASE args.mode = "COMFORT" -> info.comfort_setpoint
                          [] args.mode = "ECO" -> info.eco_setpoint
                          [] args.mode = "ANTIFREEZE" -> info.antifreeze_setpoint
                          [] OTHER -> None
        IN /\ result.value.method = expected
           /\ result.value.helper = expected
           /\ result.value.method = result.value.helper

\* C16 witness: ANTIFREEZE was looked up in an Info that holds all three presets,
\* and both lookups gave the antifreeze setpoint 7.
C16_Witness ==
    /\ method = "get_preset_setpoint"
    /\ args.mode = "ANTIFREEZE"
    /\ args.device_info.comfort_setpoint = Some(19)
    /\ args.device_info.eco_setpoint = Some(15)
    /\ result.value = [method |-> Some(7), helper |-> Some(7)]

\* the days of a Schedule as a list of (week_day, slots) pairs
DayPairs(days) == [i \in DOMAIN days |-> <<days[i].week_day, days[i].schedule_slots>>]

\* C17: for every Schedule with a list of days, also an empty list and days without
\* slots, Schedule.from_dict(schedule.to_dict()) has the same (week_day, slots)
\* pairs in the same order and the same client_id.
C17_ScheduleRoundTrip ==
    (method = "Schedule.round_trip" /\ args.schedule.weekly_schedule # None) =>
        LET back == result.value.back IN
        /\ back.client_id = args.schedule.client_id
        /\ back.weekly_schedule # None
        /\ DayPairs(Val(back.weekly_schedule)) = DayPairs(Val(args.schedule.weekly_schedule))

\* the part of C17 the code keeps: a Schedule with at least one day comes back with
\* the same pairs in the same order, and every Schedule with the same client_id
C17_NonEmptyScheduleRoundTrip ==
    method = "Schedule.round_trip" =>
        LET back == result.value.back IN
        /\ back.client_id = args.schedule.client_id
        /\ ListTruthy(args.schedule.weekly_schedule) =>
             /\ back.weekly_schedule # None
             /\ DayPairs(Val(back.weekly_schedule)) =
                    DayPairs(Val(args.schedule.weekly_schedule))
        /\ ~ListTruthy(args.schedule.weekly_schedule) => back.weekly_schedule = None

\* wire code and member name of the eleven operation modes and the two use modes
OperationModeCodes ==
    {<<"ANF", "ANTIFREEZE">>, <<"BST", "BOOST">>, <<"CMF", "COMFORT">>, <<"ECO", "ECO">>,
     <<"HIG", "HIGH">>, <<"HOL", "HOLIDAY">>, <<"LOW", "LOW">>, <<"MAN", "MANUAL">>,
     <<"MED", "MEDIUM">>, <<"SCH", "SCHEDULE">>, <<"SBY", "STANDBY">>}

UseModeCodes == {<<"SET", "SETPOINT">>, <<"POW", "POWER">>}

\* the member a wire value stands for in a table of codes, absent when it has none
MemberOf(codes, data, key) ==
    IF key \in DOMAIN data.items /\ \E c \in codes : c[1] = data.items[key]
    THEN Some((CHOOSE c \in codes : c[1] = data.items[key])[2])
    ELSE None

\* a timestamp is absent, true or false, or a number of milliseconds within the
\* years 1 to 9999
TimestampInRange(timestamp) ==
    timestamp # None =>
        \/ Val(timestamp).type = "bool"
        \/ /\ Val(timestamp).type = "int"
           /\ Val(timestamp).days >= MinDay
           /\ Val(timestamp).days <= MaxDay

\* the timestamps of a response are in range and its Holiday is an object
TimestampsWellFormed(data) ==
    LET holiday == IF method = "Info.from_dict" THEN Get(data, "Holiday") ELSE None
    IN /\ TimestampInRange(Get(data, "Last_Update"))
       /\ holiday # None =>
             /\ Val(holiday).type = "dict"
             /\ TimestampInRange(Get(Val(holiday), "Holiday_Start"))

\* C18: on a response whose timestamps are well formed, Info.from_dict and
\* Status.from_dict raise nothing and give operative_mode absent for a missing or
\* unrecognised Operative_Mode, use_mode absent for a missing or unrecognised
\* Use_Mode, the enum member for a recognised code, and the other fields as they are
\* in the response; they raise only on a malformed Last_Update or Holiday.
C18_LenientEnumParsing ==
    method \in {"Info.from_dict", "Status.from_dict"} =>
        /\ (result.kind = "return") = TimestampsWellFormed(args.data)
        /\ result.kind = "return" =>
             /\ result.value.operative_mode =
                    MemberOf(OperationModeCodes, args.data, "Operative_Mode")
             /\ method = "Info.from_dict" =>
                    result.value.use_mode = MemberOf(UseModeCodes, args.data, "Use_Mode")
             /\ result.value.client_id = Get(args.data, "Client_ID")
             /\ result.value.set_point = Get(args.data, "Set_Point")

\* C18 witness: an Info response with an unrecognised Operative_Mode and the
\* Use_Mode code POW was parsed; the mode is absent, the use mode is POWER and the
\* client id and setpoint are kept.
C18_Witness ==
    /\ method = "Info.from_dict"
    /\ Get(args.data, "Operative_Mode") = Some("UNKNOWN_MODE")
    /\ Get(args.data, "Use_Mode") = Some("POW")
    /\ result.kind = "return"
    /\ result.value.operative_mode = None
    /\ result.value.use_mode = Some("POWER")
    /\ result.value.client_id = Some("c1")
    /\ result.value.set_point = Some(21)

\* the object's session state is as __init__ left it
C19_ClientUntouched ==
    /\ sessions = <<>>
    /\ _session = None
    /\ _owned_session = TRUE
    /\ requests = <<>>

\* C19: _validate_temperature accepts every t with 0 <= t <= 30, raises
\* StoneConnectValidationError naming the minimum limit for t < 0 and the maximum
\* limit for t > 30, and leaves the client as it was.
C19_ValidationIsPure ==
    method = "_validate_temperature" =>
        LET t == Val(args.temperature) IN
        /\ (0 <= t /\ t <= 30) => result = Return(PyNone)
        /\ t < 0 => /\ result.kind = "raise"
                    /\ result.exc = ValidationError("below minimum limit")
        /\ t > 30 => /\ result.kind = "raise"
                     /\ result.exc = ValidationError("above maximum limit")
        /\ C19_ClientUntouched

\* C19 witness: the upper limit 30 itself was validated and accepted.
C19_Witness ==
    /\ method = "_validate_temperature"
    /\ args.temperature = Some(30)
    /\ result = Return(PyNone)

-----------------------------------------------------------------------------
(* set_power_mode *)

\* C20: set_power_mode(level) raises StoneConnectValidationError without any request
\* for the eight modes other than HIGH, MEDIUM, LOW; for these three it runs
\* set_operation_mode(level) once, with the same level.
C20_SetPowerModeChecksLevel ==
    method = "set_power_mode" =>
        LET level == Val(args.mode) IN
        IF level \notin {"HIGH", "MEDIUM", "LOW"}
        THEN /\ Raised("StoneConnectValidationError")
             /\ requests = <<>>
        ELSE /\ GetInfoRequest(1)
             /\ mode = Some(level)
             /\ pc = "set_operation_mode.get_info" => Len(requests) = 1
             /\ \A i \in Puts : Val(requests[i].data).Operative_Mode = ModeValue(level)

\* C20 witness: set_power_mode(MEDIUM) went through set_operation_mode and its PUT
\* with Operative_Mode MED is in flight.
C20_Witness ==
    /\ method = "set_power_mode"
    /\ args.mode = Some("MEDIUM")
    /\ pc = "set_temperature_and_mode.put"
    /\ Val(InFlight.data).Operative_Mode = "MED"

-----------------------------------------------------------------------------
(* Derived queries *)

\* the call sent one request, a GET without a body to the endpoint
OneGet(endpoint) ==
    /\ Len(requests) = 1
    /\ requests[1].method = "GET"
    /\ requests[1].endpoint = endpoint
    /\ requests[1].data = None

\* C21: is_online never raises: it returns true exactly when its GET status gave
\* get_status a record, and false for every failure of that request (transport
\* failure, error status, response that cannot be read).
C21_IsOnlineNeverRaises ==
    (method = "is_online" /\ Finished) =>
        /\ OneGet("status")
        /\ result.kind = "return"
        /\ result.value = GotObject("status")
        /\ response.kind = "transport" => result.value = FALSE
        /\ (response.kind = "http" /\ response.status >= 400) => result.value = FALSE
        /\ (outcome.kind = "raise") => result.value = FALSE
        /\ (GotRecord /\ StatusFromDict(outcome.value).kind = "raise") =>
              result.value = FALSE
        /\ (/\ response.kind = "http"
            /\ response.status = 200
            /\ response.content_type_ok
            /\ response.body.kind = "json"
            /\ StatusFromDict(response.body.value).kind = "return") => result.value = TRUE

\* C21 witness: the device answered the GET status of is_online with 401, _request
\* raised, and is_online returned false.
C21_Witness ==
    /\ method = "is_online"
    /\ Finished
    /\ response.kind = "http"
    /\ response.status = 401
    /\ outcome.kind = "raise"
    /\ result = Return(FALSE)

\* the Load_Size_Watt the Info response reports
ReportedLoadSize == Get(outcome.value, "Load_Size_Watt")

\* C22: has_power_measurement_support returns true exactly when the fetched Info
\* reports a nonzero load_size_watt; it returns false when the value is 0 or the
\* device does not report it.
C22_SupportIffNonzeroLoad ==
    (method = "has_power_measurement_support" /\ Finished /\ GotObject("info")) =>
        /\ result.kind = "return"
        /\ result.value = (ReportedLoadSize # None /\ ReportedLoadSize # Some(0))

\* the part of C22 the code keeps: false exactly for a reported load size of 0
C22_SupportUnlessZeroLoad ==
    (method = "has_power_measurement_support" /\ Finished /\ GotObject("info")) =>
        /\ OneGet("info")
        /\ result.kind = "return"
        /\ result.value = (ReportedLoadSize # Some(0))

\* the wire codes of the ten modes other than STANDBY
HeatingCodes == {"ANF", "BST", "CMF", "ECO", "HIG", "HOL", "LOW", "MAN", "MED", "SCH"}

\* the Operative_Mode the status response reports
ReportedModeCode == Get(outcome.value, "Operative_Mode")

\* C23: is_heating returns absent when the status reports no operation mode or one
\* the library does not know, false when it reports STANDBY and true for each of the
\* ten other modes.
C23_IsHeatingThreeValued ==
    (method = "is_heating" /\ Finished /\ GotObject("status")) =>
        /\ OneGet("status")
        /\ result.kind = "return"
        /\ result.value =
              (IF ReportedModeCode = Some("SBY") THEN Some(FALSE)
               ELSE IF ReportedModeCode # None /\ Val(ReportedModeCode) \in HeatingCodes
               THEN Some(TRUE)
               ELSE None)

\* C23 witness: the status reported a mode code the library does not know and
\* is_heating returned absent.
C23_Witness ==
    /\ method = "is_heating"
    /\ Finished
    /\ GotRecord
    /\ ReportedModeCode = Some("UNKNOWN_MODE")
    /\ result = Return(None)

-----------------------------------------------------------------------------
(* Accessors: one GET each, nothing kept between calls *)

Accessors == {"get_info", "get_status", "get_schedule"}

DerivedQueries ==
    {"is_online", "has_power_measurement_support", "is_heating", "get_signal_strength",
     "is_locked", "get_error_code", "get_daily_energy", "get_power_consumption",
     "get_current_temperature", "get_target_temperature"}

\* the endpoint a read-only call asks
EndpointOf(name) ==
    CASE name \in {"get_info", "has_power_measurement_support", "get_current_temperature"}
            -> "info"
      [] name = "get_schedule" -> "Schedule"
      [] OTHER -> "status"

\* the response key a derived query hands back as it is
QueryKey(name) ==
    CASE name = "get_current_temperature" -> "Set_Point"
      [] name = "get_target_temperature" -> "Set_Point"
      [] name = "get_signal_strength" -> "RSSI"
      [] name = "is_locked" -> "Lock_Status"
      [] name = "get_error_code" -> "Error_Code"
      [] name = "get_daily_energy" -> "Daily_Energy"
      [] name = "get_power_consumption" -> "Power_Consumption_Watt"

PlainQueries ==
    {"get_current_temperature", "get_target_temperature", "get_signal_strength",
     "is_locked", "get_error_code", "get_daily_energy", "get_power_consumption"}

\* the response was a 200 with a JSON record of the expected content type
JsonRecordReceived ==
    /\ response.kind = "http"
    /\ response.status = 200
    /\ response.content_type_ok
    /\ response.body.kind = "json"

\* the object an accessor returned holds what this call's response holds
C24_ReflectsResponse ==
    (Finished /\ GotObject(EndpointOf(method))) =>
        /\ method = "get_info" =>
             /\ result.kind = "return"
             /\ result.value.client_id = Get(outcome.value, "Client_ID")
             /\ result.value.set_point = Get(outcome.value, "Set_Point")
             /\ result.value.comfort_setpoint = Get(outcome.value, "Comfort_Setpoint")
             /\ result.value.eco_setpoint = Get(outcome.value, "Eco_Setpoint")
             /\ result.value.antifreeze_setpoint = Get(outcome.value, "Antifreeze_Setpoint")
             /\ result.value.load_size_watt = Get(outcome.value, "Load_Size_Watt")
        /\ method = "get_status" =>
             /\ result.kind = "return"
             /\ result.value.client_id = Get(outcome.value, "Client_ID")
             /\ result.value.set_point = Get(outcome.value, "Set_Point")
             /\ result.value.rssi = Get(outcome.value, "RSSI")
             /\ result.value.operative_mode =
                    MemberOf(OperationModeCodes, outcome.value, "Operative_Mode")
        /\ method = "get_schedule" =>
             /\ result.kind = "return"
             /\ result.value.client_id =
                    (IF "Client_ID" \in DOMAIN outcome.value.items
                     THEN outcome.value.items["Client_ID"] ELSE None)
             /\ (result.value.weekly_schedule = None)
                    = ("Weekly_Schedule" \notin DOMAIN outcome.value.items)
             /\ result.value.weekly_schedule # None =>
                    /\ Len(Val(result.value.weekly_schedule))
                           = Len(outcome.value.items["Weekly_Schedule"])
                    /\ \A i \in DOMAIN Val(result.value.weekly_schedule) :
                           Val(result.value.weekly_schedule)[i].week_day
                               = outcome.value.items["Weekly_Schedule"][i].items["week_day"]
        /\ method \in PlainQueries =>
             result = Return(Get(outcome.value, QueryKey(method)))

\* C24: get_info, get_status, get_schedule and every derived query send exactly one
\* request per call, a GET to their endpoint (info, status, Schedule); what the call
\* returns is taken from the response to that GET and from nothing else: a get_status
\* call returns the setpoint its own response reports whatever the call before it
\* returned, and a call whose request fails returns no object.
C24_OneGetFreshSnapshot ==
    /\ method \in Accessors \cup DerivedQueries => OneGet(EndpointOf(method))
    /\ C24_ReflectsResponse
    /\ (method \in Accessors \cup DerivedQueries /\ Finished /\ JsonRecordReceived) =>
          outcome = Return(response.body.value)
    /\ (method \in (Accessors \cup DerivedQueries) \ {"is_online"}
        /\ Finished /\ ~GotObject(EndpointOf(method))) => result.kind = "raise"
    /\ (method = "get_status" /\ Finished /\ JsonRecordReceived /\ GotObject("status")) =>
          result.value.set_point = Get(response.body.value, "Set_Point")

\* C24 witness: a get_status call returned setpoint 21, the device changed, and the
\* get_status call directly after it returned the new setpoint 0.
C24_Witness ==
    /\ method = "get_status"
    /\ Finished
    /\ previous = [kind |-> "status", set_point |-> Some(21)]
    /\ JsonRecordReceived
    /\ Get(response.body.value, "Set_Point") = Some(0)
    /\ result.kind = "return"
    /\ result.value.set_point = Some(0)
    /\ OneGet("status")

-----------------------------------------------------------------------------
(* The setpoint range on the wire *)

PowerCodes == {"HIG", "MED", "LOW"}

\* set_operation_mode has just read a value outside [0,30] from the given key
ReadOutOfRange(action, key) ==
    /\ method \in SetOperationModeCalls
    /\ JustRead(action)
    /\ Get(outcome.value, key) # None
    /\ OutOfRange(Val(Get(outcome.value, key)))

\* set_operation_mode ended with a validation error after n requests, none a PUT
RejectedAfter(n) ==
    /\ Raised("StoneConnectValidationError")
    /\ Len(requests) = n
    /\ Puts = {}

\* C25: every PUT goes to setpoint with a Set_Point inside [0,30], which is 0 for a
\* power mode; set_operation_mode raises StoneConnectValidationError and sends no PUT
\* when the preset it read for a preset mode, or the status setpoint it read for
\* another mode, lies outside [0,30].
C25_NoPutOutsideRange ==
    /\ \A i \in Puts :
          /\ requests[i].endpoint = "setpoint"
          /\ Val(requests[i].data).Set_Point >= 0
          /\ Val(requests[i].data).Set_Point <= 30
          /\ Val(requests[i].data).Operative_Mode \in PowerCodes
                => Val(requests[i].data).Set_Point = 0
    /\ (C12_Case /\ ReadOutOfRange("set_operation_mode_get_info", PresetKey(Val(mode))))
          => RejectedAfter(1)
    /\ (C13_Case /\ ReadOutOfRange("set_operation_mode_get_status", "Set_Point"))
          => RejectedAfter(2)

\* C25 witness: set_operation_mode(STANDBY) read a status setpoint below 0 and
\* raised StoneConnectValidationError without sending a PUT.
C25_Witness ==
    /\ method = "set_operation_mode"
    /\ args.mode = Some("STANDBY")
    /\ JustRead("set_operation_mode_get_status")
    /\ Get(outcome.value, "Set_Point") = Some(MIN_TEMPERATURE - 1)
    /\ RejectedAfter(2)

-----------------------------------------------------------------------------
(* Failure of a request *)

\* a coroutine of the client is suspended in a request
Suspended == pc \notin {"idle", "done"}

\* the step in which a request fails ends the call: nothing more is sent, and what
\* _request raised is what the call raises
C26_FailureEndsCall ==
    (Suspended /\ method # "is_online" /\ outcome'.kind = "raise") =>
        /\ pc' = "done"
        /\ requests' = requests
        /\ result' = outcome'
        /\ UNCHANGED sessionVars

\* a GET answered by nothing an object can be built from ends the call as well: by
\* no record, or by a record from_dict raises on
C26_UnreadableEndsCall ==
    (/\ Suspended
     /\ method # "is_online"
     /\ InFlight.method = "GET"
     /\ \/ outcome' = Return(PyNone)
        \/ /\ outcome'.kind = "return"
           /\ outcome'.value.type = "dict"
           /\ FromDict(InFlight.endpoint, outcome'.value).kind = "raise") =>
        /\ pc' = "done"
        /\ requests' = requests
        /\ result'.kind = "raise"
        /\ outcome'.value.type = "dict" =>
              result' = FromDict(InFlight.endpoint, outcome'.value)

\* at the end of a call whose last request failed: the failed request is the last
\* one sent, no PUT follows a failed GET, and the caller gets the error of _request
C26_FailedCall ==
    (Finished /\ method # "is_online" /\ outcome.kind = "raise") =>
        /\ result = outcome
        /\ requests # <<>>
        /\ InFlight.method = "GET" => Puts = {}
        /\ Cardinality(Puts) <= 1

\* C26: when a request of an accessor or mutator fails, the call ends in that step:
\* no further request is sent, no request is repeated, no PUT follows a failed GET,
\* and the error _request raised reaches the caller unchanged.
C26_NoRetryNoContinuation ==
    /\ []C26_FailedCall
    /\ [][C26_FailureEndsCall /\ C26_UnreadableEndsCall]_vars

\* C26 witness: in set_operation_mode(STANDBY) the GET status, the second request,
\* was answered with 500; the call ended there with the error of _request.
C26_Witness ==
    /\ method = "set_operation_mode"
    /\ args.mode = Some("STANDBY")
    /\ Finished
    /\ response.kind = "http"
    /\ response.status = 500
    /\ Len(requests) = 2
    /\ GetStatusRequest(2)
    /\ outcome.kind = "raise"
    /\ result = outcome

-----------------------------------------------------------------------------
(* The life of a session the client made *)

\* the client holds no session it could send a request on
HoldsNoOpenSession == _session = None \/ sessions[Val(_session)].closed

\* nothing is made at construction, and close() is awaited at most once on a
\* session the client made
C27_ClosedAtMostOnce ==
    /\ last = "__init__" => ClientSessions = {}
    /\ \A i \in ClientSessions :
          /\ sessions[i].closes <= 1
          /\ sessions[i].closed <=> sessions[i].closes = 1

\* a session is made only in a scoped entry or in a step that sends a request, when
\* the client holds no open session; the request goes out on the new session
C27_CreatedOnNeed ==
    Len(sessions') > Len(sessions) =>
        /\ HoldsNoOpenSession
        /\ sessions' = Append(sessions, [creator |-> "client", closed |-> FALSE,
                                         raise_for_status |-> TRUE, closed_by |-> "nobody",
                                         closes |-> 0, closed_in |-> "nothing"])
        /\ _session' = Some(Len(sessions'))
        /\ \/ last' = "__aenter__"
           \/ /\ Len(requests') = Len(requests) + 1 \/ requests = <<>>
              /\ requests' # <<>>
              /\ requests'[Len(requests')].session = Len(sessions')

\* close() or a scoped exit called on a client that holds no open session closes
\* nothing, and a close() that resumes closes nothing more
C27_SecondCloseIsNoOp ==
    /\ (last' \in {"close", "__aexit__"} /\ ~Closing /\ HoldsNoOpenSession) =>
          /\ sessions' = sessions
          /\ _session' = _session
    /\ (Closing /\ ~Closing') =>
          /\ sessions' = sessions
          /\ _session' = None

\* C27: the client makes no session at construction, only in a scoped entry or for a
\* request when it holds no open one; close() is awaited at most once on each session
\* it made: a second close(), or a scoped exit after close(), closes nothing.
C27_LazySessionClosedOnce ==
    /\ []C27_ClosedAtMostOnce
    /\ [][C27_CreatedOnNeed /\ C27_SecondCloseIsNoOp]_vars

\* C27 witness: the only session, made by the client, was closed by an explicit
\* close() inside the scoped block; the scoped exit after it closed nothing more.
C27_Witness ==
    /\ last = "__aexit__"
    /\ Len(sessions) = 1
    /\ sessions[1].creator = "client"
    /\ sessions[1].closed_in = "close"
    /\ sessions[1].closes = 1
    /\ _session = None

-----------------------------------------------------------------------------
(* The scoped block *)

\* after a scoped exit: the statement has ended outside the block, the session the
\* client owned is released, and the statement raises the error of the body or, for
\* a body that completed, nothing
C30_AfterExit ==
    closing.at = "exited" =>
        /\ scope = "outside"
        /\ _owned_session => _session = None
        /\ closing.result = (IF closing.exc = None THEN Return(PyNone)
                             ELSE Raise(Val(closing.exc)))

\* the error with which a heater call ended inside the block is the error the
\* statement raises; from a body that is not in a failed call the exit is taken with
\* the body completed or with an error of the body's own
C30_ExitStep ==
    /\ (scope = "inside" /\ ~Closing /\ closing'.at \in {"__aexit__", "exited"}) =>
          /\ (Finished /\ result.kind = "raise") => closing'.exc = Some(result.exc)
          /\ Idle => closing'.exc \in {None, Some([type |-> "RuntimeError"])}
          /\ CloseCondition =>
                /\ sessions'[Val(_session)].closed
                /\ sessions'[Val(_session)].closed_in = "__aexit__"
    /\ closing.at = "__aexit__" =>
          \/ closing' = closing
          \/ closing'.at = "exited" /\ closing'.exc = closing.exc
    /\ (scope = "inside" /\ scope' = "outside") =>
          /\ closing'.at = "exited"
          /\ last' = "__aexit__"

\* C30: the scoped exit closes the owned session and then lets the error raised in
\* the body propagate as it is; it never suppresses or replaces it, and a body that
\* completed normally exits normally.
C30_ExitPropagatesBodyError ==
    /\ []C30_AfterExit
    /\ [][C30_ExitStep]_vars

\* C30 witness: a heater call inside the block raised StoneConnectValidationError;
\* the exit closed the session the client had made and the statement raised that
\* error.
C30_Witness ==
    /\ last = "__aexit__"
    /\ closing.at = "exited"
    /\ Len(sessions) = 1
    /\ sessions[1].closed_in = "__aexit__"
    /\ closing.exc # None
    /\ closing.result.kind = "raise"
    /\ closing.result.exc.type = "StoneConnectValidationError"

-----------------------------------------------------------------------------
(* Read and write of set_operation_mode *)

\* set_operation_mode has done its reads and is inside set_temperature_and_mode
InWritePhase ==
    /\ method \in SetOperationModeCalls
    /\ pc \in {"set_temperature_and_mode.get_info", "set_temperature_and_mode.put"}

\* the setpoint set_operation_mode decided on when it read the device
C28_ValueRead ==
    /\ (C12_Case /\ JustRead("set_operation_mode_get_info") /\ InWritePhase) =>
          temperature = Get(outcome.value, PresetKey(Val(mode)))
    /\ (C13_Case /\ JustRead("set_operation_mode_get_status") /\ InWritePhase) =>
          temperature = (IF Get(outcome.value, "Set_Point") \in {None, Some(0)}
                         THEN Some(20) ELSE Get(outcome.value, "Set_Point"))

\* the PUT in flight is the only one and carries the setpoint decided on
C28_PutCarriesValueRead ==
    (method \in SetOperationModeCalls /\ pc = "set_temperature_and_mode.put") =>
        /\ Puts = {Len(requests)}
        /\ Val(InFlight.data).Set_Point =
              (IF Val(InFlight.data).Operative_Mode \in PowerCodes THEN 0
               ELSE Val(temperature))

\* in the write phase the value decided on is not changed by anything the device
\* answers: the Info fetched last is followed by the PUT with that value, and the
\* answer to the PUT by the end of the call, without another read
C28_WriteStep ==
    InWritePhase =>
        /\ temperature' = temperature
        /\ mode' = mode
        /\ (/\ pc = "set_temperature_and_mode.get_info"
            /\ outcome'.kind = "return"
            /\ outcome'.value.type = "dict"
            /\ InfoFromDict(outcome'.value).kind = "return") =>
              /\ pc' = "set_temperature_and_mode.put"
              /\ requests' = Append(requests, requests'[Len(requests')])
              /\ requests'[Len(requests')].method = "PUT"
        /\ pc = "set_temperature_and_mode.put" =>
              /\ pc' = "done"
              /\ requests' = requests
              /\ outcome'.kind = "return" => result' = Return(PyNone)

\* C28: set_operation_mode decides on the setpoint when it reads the device and its
\* PUT, sent two requests later, carries that value whatever the device reports in
\* between: a preset or setpoint changed after the read is neither noticed nor
\* read again, and the PUT overwrites it.
C28_ReadWriteNotAtomic ==
    /\ [](C28_ValueRead /\ C28_PutCarriesValueRead)
    /\ [][C28_WriteStep]_vars

\* C28 witness: set_operation_mode(COMFORT) read the preset 19; the Info fetched
\* after that reports a comfort preset of 31, and the PUT in flight carries 19.
C28_Witness ==
    /\ method = "set_operation_mode"
    /\ args.mode = Some("COMFORT")
    /\ pc = "set_temperature_and_mode.put"
    /\ GotRecord
    /\ Get(outcome.value, "Comfort_Setpoint") = Some(31)
    /\ temperature = Some(19)
    /\ Val(InFlight.data).Set_Point = 19

-----------------------------------------------------------------------------
(* The session a request is sent on *)

\* every request of the call was sent on a session that is open
C29_RequestsOnOpenSessions ==
    \A i \in DOMAIN requests :
        /\ requests[i].session \in DOMAIN sessions
        /\ ~sessions[requests[i].session].closed

\* a step that sends a request sends it on the session the client holds after it,
\* which is open: the one it held if that was open, and else a new one
C29_SendStep ==
    Len(requests') > Len(requests) =>
        LET sent == requests'[Len(requests')] IN
        /\ _session' = Some(sent.session)
        /\ ~sessions'[sent.session].closed
        /\ IF HoldsNoOpenSession
           THEN /\ sent.session = Len(sessions) + 1
                /\ Len(sessions') = Len(sessions) + 1
                /\ sessions'[sent.session].creator = "client"
           ELSE UNCHANGED <<sessions, _session>>

\* C29: no request is sent on a closed or absent session; a client that holds none
\* or a closed one makes a new open session for the request, also after close()
\* or a scoped exit.
C29_NoRequestOnClosedSession ==
    /\ []C29_RequestsOnOpenSessions
    /\ [][C29_SendStep]_vars

\* C29 witness: a request is in flight on a new session of a client whose earlier
\* session was closed by the scoped exit.
C29_Witness ==
    /\ Suspended
    /\ ~Closing
    /\ scope = "outside"
    /\ sessions[InFlight.session].creator = "client"
    /\ \E s \in ClientSessions :
         /\ s < InFlight.session
         /\ sessions[s].closed_in = "__aexit__"

====
